---- MODULE Spec2Model ----
(***************************************************************************)
(* docloom: a document tree of Block and Inline nodes and its two          *)
(* renderers, Markdown (src/src/md.rs) and terminal (src/src/term.rs).     *)
(*                                                                         *)
(* A string is a sequence of characters, a character a one-token string.   *)
(* A renderer is a record threaded through the rendering operators: the    *)
(* sink's contents (buf), every write_str call the sink received (log),    *)
(* the number of the write the sink rejects (failAt, 0 = none) and the     *)
(* Result of the statement executed last (res).                            *)
(***************************************************************************)
EXTENDS Integers, Sequences, FiniteSets, TLC

VARIABLES
    target,        \* the renderer that was constructed: "md" or "term"
    style,         \* Renderer.style: an md::Style or a term::Style
    input,         \* the slice of Blocks the caller renders
    writer,        \* Renderer.writer, the sink: [buf, log, failAt]
    indent_level,  \* term::Renderer.indent_level (0 for the Markdown renderer)
    result,        \* "None" before the call, then "Ok", "Err" or "Panic"
    pc,            \* "new" after construction, "done" after the render call
    calls          \* the render calls made on the renderer so far

vars == <<target, style, input, writer, indent_level, result, pc, calls>>

----------------------------------------------------------------------------
(* Strings *)

Min(a, b) == IF a <= b THEN a ELSE b
Max(a, b) == IF a >= b THEN a ELSE b

\* The concatenation of a sequence of sequences (by halves)
RECURSIVE Flatten(_)
Flatten(ss) ==
    IF ss = <<>> THEN <<>>
    ELSE IF Len(ss) = 1 THEN ss[1]
    ELSE LET m == Len(ss) \div 2
         IN  Flatten(SubSeq(ss, 1, m)) \o Flatten(SubSeq(ss, m + 1, Len(ss)))

RECURSIVE SumSeq(_)
SumSeq(ns) == IF ns = <<>> THEN 0 ELSE Head(ns) + SumSeq(Tail(ns))

\* str::repeat
Repeat(s, n) == [i \in 1..(n * Len(s)) |-> s[((i - 1) % Len(s)) + 1]]

\* usize as Display: the decimal digits
Digits == <<"0", "1", "2", "3", "4", "5", "6", "7", "8", "9">>
RECURSIVE DecStr(_)
DecStr(n) == IF n < 10 THEN <<Digits[n + 1]>>
             ELSE DecStr(n \div 10) \o <<Digits[(n % 10) + 1]>>

\* Characters the lexer does not take inside a string are named tokens
BACKTICK == "U+0060"
ESC == "U+001B"

WhiteSpace == {" ", "\n", "\t", "\r"}

\* str::trim_end: every trailing white-space character is removed
RECURSIVE TrimEnd(_)
TrimEnd(s) == IF s # <<>> /\ s[Len(s)] \in WhiteSpace
              THEN TrimEnd(SubSeq(s, 1, Len(s) - 1))
              ELSE s

StripCR(line) == IF line # <<>> /\ line[Len(line)] = "\r"
                 THEN SubSeq(line, 1, Len(line) - 1)
                 ELSE line

\* str::lines: split at "\n" (or "\r\n"); a final empty line is dropped
Lines(s) ==
    LET nls == {i \in 1..Len(s) : s[i] = "\n"}
        \* the position of the k-th newline; 0 for k = 0
        nl(k) == IF k = 0 THEN 0
                 ELSE CHOOSE i \in nls : Cardinality({j \in nls : j < i}) = k - 1
        n == Cardinality(nls)
        terminated == [k \in 1..n |-> StripCR(SubSeq(s, nl(k - 1) + 1, nl(k) - 1))]
    IN  IF nl(n) < Len(s) THEN Append(terminated, SubSeq(s, nl(n) + 1, Len(s)))
        ELSE terminated

\* The write_str / write_char calls of one "{:width$}" argument: the string,
\* then one fill character at a time up to width (Formatter::pad, left-aligned).
PadPieces(s, width) == <<s>> \o [i \in 1..Max(width - Len(s), 0) |-> <<" ">>]

\* format!("{:width$}", s) and format!("{:>width$}", s) as one String
PadRight(s, width) == s \o Repeat(<<" ">>, width - Len(s))
PadLeft(s, width) == Repeat(<<" ">>, width - Len(s)) \o s

----------------------------------------------------------------------------
(* The document model: src/src/lib.rs *)

Text(s) == [tag |-> "Text", text |-> s]
Bold(xs) == [tag |-> "Bold", content |-> xs]
Italic(xs) == [tag |-> "Italic", content |-> xs]
Strikethrough(xs) == [tag |-> "Strikethrough", content |-> xs]
Code(s) == [tag |-> "Code", text |-> s]
Link(xs, u) == [tag |-> "Link", content |-> xs, url |-> u]
Image(a, u) == [tag |-> "Image", alt |-> a, url |-> u]
LineBreak == [tag |-> "LineBreak"]

\* Option<String>: <<>> is None, <<s>> is Some(s)
Paragraph(xs) == [tag |-> "Paragraph", content |-> xs]
Heading(l, xs) == [tag |-> "Heading", level |-> l, content |-> xs]
CodeBlock(lang, c) == [tag |-> "CodeBlock", language |-> lang, text |-> c]
Blockquote(bs) == [tag |-> "Blockquote", inner |-> bs]
List(o, bs) == [tag |-> "List", ordered |-> o, items |-> bs]
TaskList(its) == [tag |-> "TaskList", items |-> its]
Table(hs, rs, as) == [tag |-> "Table", headers |-> hs, rows |-> rs, alignments |-> as]
HorizontalRule == [tag |-> "HorizontalRule"]
BlockList(bs) == [tag |-> "BlockList", inner |-> bs]

Alignment == {"Left", "Center", "Right"}

----------------------------------------------------------------------------
(* The sink and the write! macros *)

\* A renderer over a fresh sink that rejects its failAt-th write (0: none)
NewRenderer(failAt) == [buf |-> <<>>, log |-> <<>>, failAt |-> failAt, res |-> "Ok"]

\* A renderer over a String::new(): a String accepts every write
NewString == NewRenderer(0)

\* fmt::Write::write_str on the sink: the Result of this one call
WriteStr(r, s) ==
    IF r.res = "Panic" THEN r
    ELSE IF Len(r.log) + 1 = r.failAt
         THEN [r EXCEPT !.log = Append(@, s), !.res = "Err"]
         ELSE [r EXCEPT !.log = Append(@, s), !.buf = @ \o s, !.res = "Ok"]

\* In a list of pieces: an argument whose evaluation panics
\* (unimplemented!(), unreachable!())
Abort == <<"panic">>

\* Mutant: the Result of a write is dropped and the next write is made
RECURSIVE WritePieces_IgnoreErr(_, _)
WritePieces_IgnoreErr(r, pieces) ==
    IF r.res = "Panic" \/ pieces = <<>> THEN r
    ELSE IF Len(pieces) = 1
         THEN (IF pieces[1] = Abort THEN [r EXCEPT !.res = "Panic"]
               ELSE WriteStr(r, pieces[1]))
    ELSE WritePieces_IgnoreErr(
            WritePieces_IgnoreErr(r, SubSeq(pieces, 1, Len(pieces) \div 2)),
            SubSeq(pieces, Len(pieces) \div 2 + 1, Len(pieces)))

\* write!(..)? statements in a row: each piece is one write_str, and the
\* first Err is returned at once (the pieces are taken in order, by halves).
\* A renderer whose res is not Ok has returned through a `?`: the statements
\* that follow in the code do not run, so every operation leaves it as it is.
RECURSIVE WritePieces(_, _)
WritePieces(r, pieces) ==
    IF r.res # "Ok" \/ pieces = <<>> THEN r
    ELSE IF Len(pieces) = 1
         THEN (IF pieces[1] = Abort THEN [r EXCEPT !.res = "Panic"]
               ELSE WriteStr(r, pieces[1]))
    ELSE WritePieces(WritePieces(r, SubSeq(pieces, 1, Len(pieces) \div 2)),
                     SubSeq(pieces, Len(pieces) \div 2 + 1, Len(pieces)))

----------------------------------------------------------------------------
(* The Markdown renderer: src/src/md.rs *)

MdStyle(fence, marker, maxh) ==
    [code_fence |-> fence, list_marker |-> marker, max_heading |-> maxh]

MdDefaultStyle == MdStyle("Backtick", "Dash", 6)

RECURSIVE RenderInlineMd(_, _), RenderInlinesMd(_, _)

\* impl Renderable for [Inline]: render_with, on the Markdown renderer
RenderInlinesMd(r, xs) ==
    IF xs = <<>> THEN r
    ELSE RenderInlinesMd(RenderInlineMd(r, Head(xs)), Tail(xs))

\* Mutant: Strikethrough is delimited by one tilde
MdDelimiter_OneTilde(tag) ==
    CASE tag = "Bold" -> <<"*", "*">>
      [] tag = "Italic" -> <<"*">>
      [] tag = "Strikethrough" -> <<"~">>

\* The delimiters of Bold, Italic and Strikethrough
MdDelimiter(tag) ==
    CASE tag = "Bold" -> <<"*", "*">>
      [] tag = "Italic" -> <<"*">>
      [] tag = "Strikethrough" -> <<"~", "~">>

RenderInlineMd(r, inl) ==
    CASE inl.tag = "Text" -> WritePieces(r, <<inl.text>>)
      [] inl.tag \in {"Bold", "Italic", "Strikethrough"} ->
            LET r1 == WritePieces(r, <<MdDelimiter(inl.tag)>>)
                r2 == RenderInlinesMd(r1, inl.content)
            IN  WritePieces(r2, <<MdDelimiter(inl.tag)>>)
      [] inl.tag = "Code" -> WritePieces(r, << <<BACKTICK>>, inl.text, <<BACKTICK>> >>)
      [] inl.tag = "Link" ->
            LET r1 == WritePieces(r, << <<"[">> >>)
                r2 == RenderInlinesMd(r1, inl.content)
            IN  WritePieces(r2, << <<"]", "(">>, inl.url, <<")">> >>)
      [] inl.tag = "Image" ->
            WritePieces(r, << <<"!", "[">>, inl.alt, <<"]", "(">>, inl.url, <<")", "\n">> >>)
      [] inl.tag = "LineBreak" -> WritePieces(r, << <<" ", " ", "\n">> >>)

\* Renderer::to_string of one Inline: rendered into a String of its own
MdToString(inl) == RenderInlineMd(NewString, inl).buf

RECURSIVE MeasureInlineMd(_)

\* Mutant: Bold, Italic and Strikethrough add nothing for their delimiters
MeasureInlineMd_NoDelimiters(inl) ==
    CASE inl.tag = "Text" -> Len(inl.text)
      [] inl.tag \in {"Bold", "Italic", "Strikethrough"} ->
            SumSeq([i \in 1..Len(inl.content) |-> MeasureInlineMd(inl.content[i])])
      [] inl.tag = "Code" -> Len(inl.text) + 2
      [] inl.tag = "Link" ->
            2 + SumSeq([i \in 1..Len(inl.content) |-> MeasureInlineMd(inl.content[i])])
      [] inl.tag = "Image" -> 5 + Len(inl.alt) + Len(inl.url)
      [] inl.tag = "LineBreak" -> 0

\* fn measure_inline
MeasureInlineMd(inl) ==
    CASE inl.tag = "Text" -> Len(inl.text)
      [] inl.tag \in {"Bold", "Italic", "Strikethrough"} ->
            SumSeq([i \in 1..Len(inl.content) |-> MeasureInlineMd(inl.content[i])]) + 4
      [] inl.tag = "Code" -> Len(inl.text) + 2
      [] inl.tag = "Link" ->
            2 + SumSeq([i \in 1..Len(inl.content) |-> MeasureInlineMd(inl.content[i])])
      [] inl.tag = "Image" -> 5 + Len(inl.alt) + Len(inl.url)
      [] inl.tag = "LineBreak" -> 0

\* Mutant: the level is not clamped
MdClampLevel_NoClamp(level, max_heading) == level

\* let clamped_level = (*level).min(self.style.max_heading)
MdClampLevel(level, max_heading) == Min(level, max_heading)

\* Mutant: the fence is the backtick fence under either style
MdFence_AlwaysBacktick(st) == <<BACKTICK, BACKTICK, BACKTICK>>

\* let fence = match self.style.code_fence
MdFence(st) == IF st.code_fence = "Backtick" THEN <<BACKTICK, BACKTICK, BACKTICK>>
                  ELSE <<"~", "~", "~">>

MdListMarker(st) == IF st.list_marker = "Asterisk" THEN <<"*">> ELSE <<"-">>

MinColumnWidth == 3

\* Mutant: no floor on the column width
MdClampWidth_NoFloor(w) == w

\* *w = (*w).max(3)
MdClampWidth(w) == Max(w, MinColumnWidth)

\* Mutant: a row's cell replaces the width instead of widening it
MdWidenByRow_LastWins(widths, row) ==
    [i \in 1..Len(widths) |->
        IF i <= Len(row) THEN MeasureInlineMd(row[i]) ELSE widths[i]]

\* for (i, cell) in row.iter().enumerate().take(col_count):
\*     widths[i] = widths[i].max(measure_inline(cell))
MdWidenByRow(widths, row) ==
    [i \in 1..Len(widths) |->
        IF i <= Len(row) THEN Max(widths[i], MeasureInlineMd(row[i])) ELSE widths[i]]

RECURSIVE MdWidenByRows(_, _)
MdWidenByRows(widths, rows) ==
    IF rows = <<>> THEN widths
    ELSE MdWidenByRows(MdWidenByRow(widths, Head(rows)), Tail(rows))

\* The column widths of a Table: headers, then every row in order, then the floor
MdTableWidths(headers, rows) ==
    LET measured == MdWidenByRows(
            [i \in 1..Len(headers) |-> MeasureInlineMd(headers[i])], rows)
    IN  [i \in 1..Len(measured) |-> MdClampWidth(measured[i])]

\* Mutant: Right is written as Left
MdAlignSpec_RightAsLeft(w, align) ==
    CASE align \in {"Left", "Right"} -> <<":">> \o Repeat(<<"-">>, Max(w - 1, 0))
      [] align = "Center" -> <<":">> \o Repeat(<<"-">>, Max(Max(w - 2, 0), 1)) \o <<":">>

\* The alignment spec of one separator cell
MdAlignSpec(w, align) ==
    CASE align = "Left" -> <<":">> \o Repeat(<<"-">>, Max(w - 1, 0))
      [] align = "Center" -> <<":">> \o Repeat(<<"-">>, Max(Max(w - 2, 0), 1)) \o <<":">>
      [] align = "Right" -> Repeat(<<"-">>, Max(w - 1, 0)) \o <<":">>

\* Mutant: the cell is not padded
MdCellPieces_NoPad(s, w) == << <<" ">>, s, <<" ", "|">> >>

\* write!(self.writer, " {:width$} |", s, width = w)
MdCellPieces(s, w) == << <<" ">> >> \o PadPieces(s, w) \o << <<" ", "|">> >>

MdHeaderRowPieces(headers, widths) ==
    << <<"|">> >>
    \o Flatten([i \in 1..Len(headers) |-> MdCellPieces(MdToString(headers[i]), widths[i])])
    \o << <<"\n">> >>

\* for (w, align) in widths.iter().zip(alignments.iter())
MdSeparatorRowPieces(widths, alignments) ==
    << <<"|">> >>
    \o Flatten([i \in 1..Min(Len(widths), Len(alignments)) |->
                    MdCellPieces(MdAlignSpec(widths[i], alignments[i]), widths[i])])
    \o << <<"\n">> >>

\* Mutant: a body row writes the cells it has
MdBodyRowPieces_RowCells(row, widths) ==
    << <<"|">> >>
    \o Flatten([i \in 1..Len(row) |->
                    MdCellPieces(MdToString(row[i]),
                                 IF i <= Len(widths) THEN widths[i] ELSE MinColumnWidth)])
    \o << <<"\n">> >>

MdBodyRowPieces(row, widths) ==
    << <<"|">> >>
    \o Flatten([i \in 1..Len(widths) |->
                    IF i <= Len(row) THEN MdCellPieces(MdToString(row[i]), widths[i])
                    ELSE MdCellPieces(<<>>, widths[i])])
    \o << <<"\n">> >>

MdTablePieces(t) ==
    LET widths == MdTableWidths(t.headers, t.rows)
    IN  MdHeaderRowPieces(t.headers, widths)
        \o MdSeparatorRowPieces(widths, t.alignments)
        \o Flatten([k \in 1..Len(t.rows) |-> MdBodyRowPieces(t.rows[k], widths)])
        \o << <<"\n">> >>

\* writeln!(self.writer, "> {}", line) for every line of the trimmed child
MdQuoteLinePieces(block_content) ==
    LET ls == Lines(TrimEnd(block_content))
    IN  Flatten([k \in 1..Len(ls) |-> << <<">", " ">>, ls[k], <<"\n">> >>])

RECURSIVE RenderBlockMd(_, _, _), RenderBlocksMd(_, _, _), RenderListMd(_, _, _, _),
          RenderTaskListMd(_, _, _, _), RenderBlockquoteMd(_, _, _, _),
          RenderBlockListMd(_, _, _)

\* Mutant: the slice goes on to the next element after a failure
RECURSIVE RenderBlocksMd_NoStop(_, _, _)
RenderBlocksMd_NoStop(r, st, bs) ==
    IF bs = <<>> THEN [r EXCEPT !.res = "Ok"]
    ELSE RenderBlocksMd_NoStop(
            RenderBlockMd(IF r.res = "Err" THEN [r EXCEPT !.res = "Ok"] ELSE r,
                          st, Head(bs)),
            st, Tail(bs))

\* impl Renderable for [Block]: render_with, on the Markdown renderer
RenderBlocksMd(r, st, bs) ==
    IF bs = <<>> THEN r
    ELSE RenderBlocksMd(RenderBlockMd(r, st, Head(bs)), st, Tail(bs))

\* Mutant: a BlockList ends with a newline of its own
RenderBlockListMd_Terminated(r, st, inner) ==
    WritePieces(RenderBlocksMd(r, st, inner), << <<"\n">> >>)

\* BlockList(inner): for block in inner.iter() { block.render_with(self)?; }
RenderBlockListMd(r, st, inner) == RenderBlocksMd(r, st, inner)

\* Mutant: ordered items are numbered from 0
RenderListMd_ZeroBased(r, st, b, idx) ==
    IF idx > Len(b.items) THEN WritePieces(r, << <<"\n">> >>)
    ELSE LET marker == IF b.ordered THEN <<DecStr(idx - 1), <<".", " ">> >>
                       ELSE <<MdListMarker(st), <<" ">> >>
             r1 == WritePieces(r, marker)
             r2 == RenderBlockMd(r1, st, b.items[idx])
             r3 == WritePieces(r2, << <<"\n">> >>)
         IN  IF r3.res = "Ok" THEN RenderListMd(r3, st, b, idx + 1) ELSE r3

\* for (idx, item) in items.iter().enumerate(), from item idx (1-based) on
RenderListMd(r, st, b, idx) ==
    IF idx > Len(b.items) THEN WritePieces(r, << <<"\n">> >>)
    ELSE LET marker == IF b.ordered THEN <<DecStr(idx), <<".", " ">> >>
                       ELSE <<MdListMarker(st), <<" ">> >>
             r1 == WritePieces(r, marker)
             r2 == RenderBlockMd(r1, st, b.items[idx])
             r3 == WritePieces(r2, << <<"\n">> >>)
         IN  IF r3.res = "Ok" THEN RenderListMd(r3, st, b, idx + 1) ELSE r3

\* an item of a TaskList is <<checked, block>>
RenderTaskListMd(r, st, b, idx) ==
    IF idx > Len(b.items) THEN WritePieces(r, << <<"\n">> >>)
    ELSE LET mark == IF b.items[idx][1] THEN <<"x">> ELSE <<" ">>
             r1 == WritePieces(r, << <<"-", " ", "[">>, mark, <<"]", " ">> >>)
             r2 == RenderBlockMd(r1, st, b.items[idx][2])
             r3 == WritePieces(r2, << <<"\n">> >>)
         IN  RenderTaskListMd(r3, st, b, idx + 1)

\* One child of a Blockquote: rendered by a new renderer into a String (child is
\* that renderer afterwards), whose lines are then written behind "> "
MdQuoteChild(r, child) ==
    IF r.res # "Ok" THEN r
    ELSE IF child.res # "Ok" THEN [r EXCEPT !.res = child.res]
    ELSE WritePieces(r, MdQuoteLinePieces(child.buf))

\* Mutant: inner.len() - 1 is computed before the loop, and underflows for an
\* empty Blockquote
RenderBlockquoteMd_LenFirst(r, st, inner, i) ==
    IF inner = <<>> THEN WritePieces(r, <<Abort>>)
    ELSE IF i > Len(inner) THEN r
    ELSE LET r1 == MdQuoteChild(r, RenderBlockMd(NewString, st, inner[i]))
             r2 == WritePieces(r1, IF i - 1 < Len(inner) - 1 THEN << <<">", "\n">> >>
                                   ELSE <<>>)
         IN  RenderBlockquoteMd(r2, st, inner, i + 1)

\* for (i, block) in inner.iter().enumerate(), from child i (1-based) on
RenderBlockquoteMd(r, st, inner, i) ==
    IF i > Len(inner) THEN r
    ELSE LET r1 == MdQuoteChild(r, RenderBlockMd(NewString, st, inner[i]))
             r2 == WritePieces(r1, IF i - 1 < Len(inner) - 1 THEN << <<">", "\n">> >>
                                   ELSE <<>>)
         IN  RenderBlockquoteMd(r2, st, inner, i + 1)

RenderBlockMd(r, st, b) ==
    CASE b.tag = "Paragraph" ->
            WritePieces(RenderInlinesMd(r, b.content), << <<"\n">> >>)
      [] b.tag = "Heading" ->
            LET clamped_level == MdClampLevel(b.level, st.max_heading)
                r1 == WritePieces(r, <<Repeat(<<"#">>, clamped_level), <<" ">> >>)
                r2 == RenderInlinesMd(r1, b.content)
            IN  WritePieces(r2, << <<"\n">> >>)
      [] b.tag = "CodeBlock" ->
            WritePieces(r,
                (IF b.language # <<>> THEN <<MdFence(st), b.language[1], <<"\n">> >>
                 ELSE <<MdFence(st), <<"\n">> >>)
                \o <<b.text, <<"\n">>, MdFence(st), <<"\n">>, <<"\n">> >>)
      [] b.tag = "List" -> RenderListMd(r, st, b, 1)
      [] b.tag = "TaskList" -> RenderTaskListMd(r, st, b, 1)
      [] b.tag = "Table" -> WritePieces(r, MdTablePieces(b))
      [] b.tag = "Blockquote" -> RenderBlockquoteMd(r, st, b.inner, 1)
      [] b.tag = "Image" ->
            WritePieces(r, << <<"!", "[">>, b.alt, <<"]", "(">>, b.url, <<")", "\n">> >>)
      [] b.tag = "HorizontalRule" -> WritePieces(r, << <<"-", "-", "-", "\n">> >>)
      [] b.tag = "BlockList" -> RenderBlockListMd(r, st, b.inner)

----------------------------------------------------------------------------
(* The terminal renderer: src/src/term.rs *)

\* "\x1b[<n>m"
Sgr(n) == <<ESC, "[">> \o DecStr(n) \o <<"m">>

RESET == Sgr(0)
BOLD == Sgr(1)
DIM == Sgr(2)
ITALIC == Sgr(3)
UNDERLINE == Sgr(4)
STRIKETHROUGH == Sgr(9)
GREEN == Sgr(32)
BLUE == Sgr(34)
CYAN == Sgr(36)
BG_BLACK == Sgr(40)
BRIGHT_BLACK == Sgr(90)
BRIGHT_YELLOW == Sgr(93)
BRIGHT_BLUE == Sgr(94)
BRIGHT_CYAN == Sgr(96)
BRIGHT_WHITE == Sgr(97)

TermDefaultStyle ==
    [use_colors |-> TRUE, use_unicode_boxes |-> TRUE,
     heading_colors |-> <<BRIGHT_CYAN, CYAN, BRIGHT_BLUE, BLUE, BRIGHT_WHITE, BRIGHT_WHITE>>,
     code_color |-> GREEN, code_bg |-> BG_BLACK, link_color |-> BRIGHT_BLUE,
     list_color |-> BRIGHT_YELLOW, border_color |-> BRIGHT_BLACK]

TermPlainStyle == [TermDefaultStyle EXCEPT !.use_colors = FALSE]
TermAsciiStyle == [TermDefaultStyle EXCEPT !.use_unicode_boxes = FALSE]

\* Renderer::with_style over a sink that rejects its failAt-th write; the build
\* has overflow checks (debug) or wraps (release)
NewTermRenderer(failAt, overflow_checks) ==
    [buf |-> <<>>, log |-> <<>>, failAt |-> failAt, res |-> "Ok",
     indent_level |-> 0, overflow_checks |-> overflow_checks]

\* Mutant: the code is written whether colours are on or off
Color_Ungated(st, code) == code

\* fn color: the code, or "" when colours are off
Color(st, code) == IF st.use_colors THEN code ELSE <<>>

\* fn write_indent: write!(self.writer, "{}", "  ".repeat(self.indent_level))
IndentPiece(r) == Repeat(<<" ", " ">>, r.indent_level)

\* Box-drawing and block glyphs, one token per character
HeadingGlyphs == <<"U+2588", "U+2593", "U+2592", "U+2591", "U+2022", "U+2022">>
BoxH == "U+2500"
BoxV == "U+2502"

HeadingPrefix(st, level_idx) ==
    IF st.use_unicode_boxes THEN <<HeadingGlyphs[level_idx + 1], " ">>
    ELSE Repeat(<<"#">>, level_idx + 1) \o <<" ">>

MaxHeadingIndex == 5

\* align_text with the larger half of an odd padding on the left
AlignText_CeilLeft(text, width, align) ==
    LET text_len == Len(text)
    IN  IF text_len >= width THEN text
        ELSE LET padding == width - text_len
             IN  CASE align = "Left" -> PadRight(text, width)
                   [] align = "Center" ->
                        LET right_pad == padding \div 2
                            left_pad == padding - right_pad
                        IN  Repeat(<<" ">>, left_pad) \o text \o Repeat(<<" ">>, right_pad)
                   [] align = "Right" -> PadLeft(text, width)

\* fn align_text
AlignText(text, width, align) ==
    LET text_len == Len(text)
    IN  IF text_len >= width THEN text
        ELSE LET padding == width - text_len
             IN  CASE align = "Left" -> PadRight(text, width)
                   [] align = "Center" ->
                        LET left_pad == padding \div 2
                            right_pad == padding - left_pad
                        IN  Repeat(<<" ">>, left_pad) \o text \o Repeat(<<" ">>, right_pad)
                   [] align = "Right" -> PadLeft(text, width)

\* fn measure_inline reaches unreachable!(): a LineBreak at any depth
RECURSIVE TermMeasurePanics(_)
TermMeasurePanics(inl) ==
    CASE inl.tag = "LineBreak" -> TRUE
      [] inl.tag \in {"Bold", "Italic", "Strikethrough", "Link"} ->
            \E i \in 1..Len(inl.content) : TermMeasurePanics(inl.content[i])
      [] OTHER -> FALSE

\* fn measure_inline, of an inline it does not panic on
RECURSIVE TermMeasureInline(_)
TermMeasureInline(inl) ==
    CASE inl.tag \in {"Text", "Code"} -> Len(inl.text)
      [] inl.tag \in {"Bold", "Italic", "Strikethrough", "Link"} ->
            SumSeq([i \in 1..Len(inl.content) |-> TermMeasureInline(inl.content[i])])
      [] inl.tag = "Image" -> Len(inl.alt) + Len(inl.url)

\* fn to_plain_string reaches unimplemented!() or unreachable!()
RECURSIVE TermPlainPanics(_)
TermPlainPanics(inl) ==
    CASE inl.tag \in {"LineBreak", "Image"} -> TRUE
      [] inl.tag \in {"Bold", "Italic", "Strikethrough", "Link"} ->
            \E i \in 1..Len(inl.content) : TermPlainPanics(inl.content[i])
      [] OTHER -> FALSE

\* fn to_plain_string, of an inline it does not panic on
RECURSIVE TermToPlainString(_)
TermToPlainString(inl) ==
    CASE inl.tag \in {"Text", "Code"} -> inl.text
      [] inl.tag \in {"Bold", "Italic", "Strikethrough", "Link"} ->
            Flatten([i \in 1..Len(inl.content) |-> TermToPlainString(inl.content[i])])

\* The widths without the floor of 3
TermClampWidth_NoFloor(w) == w

\* *w = (*w).max(3)
TermClampWidth(w) == Max(w, MinColumnWidth)

TermWidenByRow(widths, row) ==
    [i \in 1..Len(widths) |->
        IF i <= Len(row) THEN Max(widths[i], TermMeasureInline(row[i])) ELSE widths[i]]

RECURSIVE TermWidenByRows(_, _)
TermWidenByRows(widths, rows) ==
    IF rows = <<>> THEN widths
    ELSE TermWidenByRows(TermWidenByRow(widths, Head(rows)), Tail(rows))

\* The column widths of a Table whose measured cells do not panic
TermTableWidths(headers, rows) ==
    LET measured == TermWidenByRows(
            [i \in 1..Len(headers) |-> TermMeasureInline(headers[i])], rows)
    IN  [i \in 1..Len(measured) |-> TermClampWidth(measured[i])]

\* Some measured cell (a header, or a cell within the first headers.len() of a
\* row) makes measure_inline panic
TermTableMeasurePanics(headers, rows) ==
    \/ \E i \in 1..Len(headers) : TermMeasurePanics(headers[i])
    \/ \E k \in 1..Len(rows) :
          \E i \in 1..Min(Len(rows[k]), Len(headers)) : TermMeasurePanics(rows[k][i])

\* (tl, tr, bl, br, h, v, cross, t_down, t_up, t_left, t_right)
TableGlyphs(st) ==
    IF st.use_unicode_boxes
    THEN [tl |-> "U+250C", tr |-> "U+2510", bl |-> "U+2514", br |-> "U+2518",
          h |-> BoxH, v |-> BoxV, cross |-> "U+253C", t_down |-> "U+252C",
          t_up |-> "U+2534", t_left |-> "U+251C", t_right |-> "U+2524"]
    ELSE [tl |-> "+", tr |-> "+", bl |-> "+", br |-> "+", h |-> "-", v |-> "|",
          cross |-> "+", t_down |-> "+", t_up |-> "+", t_left |-> "+", t_right |-> "+"]

\* A horizontal border of the table: left corner, the columns, right corner
TermBorderPieces(r, st, widths, left, mid, right) ==
    <<IndentPiece(r), Color(st, DIM), Color(st, st.border_color), <<left>> >>
    \o Flatten([i \in 1..Len(widths) |->
            <<Repeat(<<TableGlyphs(st).h>>, widths[i] + 2)>>
            \o (IF i - 1 < Len(widths) - 1 THEN << <<mid>> >> ELSE <<>>)])
    \o << <<right>>, Color(st, RESET), <<"\n">> >>

\* The vertical bar that ends a cell
TermBarPieces(st) ==
    <<Color(st, DIM), Color(st, st.border_color), <<TableGlyphs(st).v>>,
      Color(st, RESET)>>

\* alignments.get(i).copied().unwrap_or(Alignment::Left)
TermColumnAlign(alignments, i) == IF i <= Len(alignments) THEN alignments[i] ELSE "Left"

TermHeaderRowPieces(r, st, headers, widths, alignments) ==
    <<IndentPiece(r)>> \o TermBarPieces(st)
    \o Flatten([i \in 1..Len(headers) |->
            << <<" ">>, Color(st, BOLD), Color(st, BRIGHT_CYAN),
               IF TermPlainPanics(headers[i]) THEN Abort
               ELSE AlignText(TermToPlainString(headers[i]), widths[i],
                              TermColumnAlign(alignments, i)),
               Color(st, RESET), <<" ">> >> \o TermBarPieces(st)])
    \o << <<"\n">> >>

TermBodyRowPieces(r, st, row, widths, alignments) ==
    <<IndentPiece(r)>> \o TermBarPieces(st)
    \o Flatten([i \in 1..Len(widths) |->
            << <<" ">> >>
            \o (IF i <= Len(row)
                THEN <<IF TermPlainPanics(row[i]) THEN Abort
                       ELSE AlignText(TermToPlainString(row[i]), widths[i],
                                      TermColumnAlign(alignments, i))>>
                ELSE PadPieces(<<>>, widths[i]))
            \o << <<" ">> >> \o TermBarPieces(st)])
    \o << <<"\n">> >>

TermTablePieces(r, st, t) ==
    IF TermTableMeasurePanics(t.headers, t.rows) THEN <<Abort>>
    ELSE LET widths == TermTableWidths(t.headers, t.rows)
             g == TableGlyphs(st)
         IN  TermBorderPieces(r, st, widths, g.tl, g.t_down, g.tr)
             \o TermHeaderRowPieces(r, st, t.headers, widths, t.alignments)
             \o TermBorderPieces(r, st, widths, g.t_left, g.cross, g.t_right)
             \o Flatten([k \in 1..Len(t.rows) |->
                    TermBodyRowPieces(r, st, t.rows[k], widths, t.alignments)])
             \o TermBorderPieces(r, st, widths, g.bl, g.t_up, g.br)
             \o << <<"\n">> >>

RuleWidth == 50

RECURSIVE RenderInlineTerm(_, _, _), RenderInlinesTerm(_, _, _)

\* impl Renderable for [Inline]: render_with, on the terminal renderer
RenderInlinesTerm(r, st, xs) ==
    IF xs = <<>> THEN r
    ELSE RenderInlinesTerm(RenderInlineTerm(r, st, Head(xs)), st, Tail(xs))

\* Mutant: Strikethrough opens with the italic code
TermOpener_StrikeAsItalic(tag) ==
    CASE tag = "Bold" -> BOLD
      [] tag = "Italic" -> ITALIC
      [] tag = "Strikethrough" -> ITALIC

\* The opener of Bold, Italic and Strikethrough
TermOpener(tag) ==
    CASE tag = "Bold" -> BOLD
      [] tag = "Italic" -> ITALIC
      [] tag = "Strikethrough" -> STRIKETHROUGH

\* Mutant: a mark that holds a nested mark writes its own opener again after
\* its children
RenderInlineTerm_Restores(r, st, inl) ==
    CASE inl.tag = "Text" -> WritePieces(r, <<inl.text>>)
      [] inl.tag \in {"Bold", "Italic", "Strikethrough"} ->
            LET r1 == WritePieces(r, <<Color(st, TermOpener(inl.tag))>>)
                r2 == RenderInlinesTerm(r1, st, inl.content)
            IN  WritePieces(r2,
                    (IF \E i \in 1..Len(inl.content) :
                            inl.content[i].tag \in {"Bold", "Italic", "Strikethrough"}
                     THEN <<Color(st, TermOpener(inl.tag))>> ELSE <<>>)
                    \o <<Color(st, RESET)>>)
      [] inl.tag = "Code" ->
            WritePieces(r, <<Color(st, st.code_bg), Color(st, st.code_color),
                             inl.text, Color(st, RESET), Color(st, RESET)>>)
      [] inl.tag = "Link" ->
            LET r1 == WritePieces(r, <<Color(st, UNDERLINE), Color(st, st.link_color)>>)
                r2 == RenderInlinesTerm(r1, st, inl.content)
            IN  WritePieces(r2, <<Color(st, RESET), <<" ">>, Color(st, DIM),
                                  Color(st, st.border_color), <<"(">>, inl.url,
                                  <<")">>, Color(st, RESET)>>)
      [] inl.tag = "Image" -> WritePieces(r, <<Abort>>)
      [] inl.tag = "LineBreak" -> WritePieces(r, << <<"\n">>, IndentPiece(r)>>)

RenderInlineTerm(r, st, inl) ==
    CASE inl.tag = "Text" -> WritePieces(r, <<inl.text>>)
      [] inl.tag \in {"Bold", "Italic", "Strikethrough"} ->
            LET r1 == WritePieces(r, <<Color(st, TermOpener(inl.tag))>>)
                r2 == RenderInlinesTerm(r1, st, inl.content)
            IN  WritePieces(r2, <<Color(st, RESET)>>)
      [] inl.tag = "Code" ->
            WritePieces(r, <<Color(st, st.code_bg), Color(st, st.code_color),
                             inl.text, Color(st, RESET), Color(st, RESET)>>)
      [] inl.tag = "Link" ->
            LET r1 == WritePieces(r, <<Color(st, UNDERLINE), Color(st, st.link_color)>>)
                r2 == RenderInlinesTerm(r1, st, inl.content)
            IN  WritePieces(r2, <<Color(st, RESET), <<" ">>, Color(st, DIM),
                                  Color(st, st.border_color), <<"(">>, inl.url,
                                  <<")">>, Color(st, RESET)>>)
      [] inl.tag = "Image" -> WritePieces(r, <<Abort>>)
      [] inl.tag = "LineBreak" -> WritePieces(r, << <<"\n">>, IndentPiece(r)>>)

RECURSIVE RenderBlockTerm(_, _, _), RenderBlocksTerm(_, _, _), RenderListTerm(_, _, _, _),
          RenderTaskListTerm(_, _, _, _), RenderBlockquoteTerm(_, _, _, _),
          RenderBlockListTerm(_, _, _)

\* impl Renderable for [Block]: render_with, on the terminal renderer
RenderBlocksTerm(r, st, bs) ==
    IF bs = <<>> THEN r
    ELSE RenderBlocksTerm(RenderBlockTerm(r, st, Head(bs)), st, Tail(bs))

\* BlockList(inner): for block in inner.iter() { block.render_with(self)?; }
RenderBlockListTerm(r, st, inner) == RenderBlocksTerm(r, st, inner)

\* Mutant: indent_level is incremented around the rendering of an item
RenderListTerm_Indented(r, st, b, idx) ==
    IF idx > Len(b.items) THEN WritePieces(r, << <<"\n">> >>)
    ELSE LET marker == IF b.ordered THEN DecStr(idx) \o <<".">>
                       ELSE IF st.use_unicode_boxes THEN <<"U+2022">> ELSE <<"*">>
             r1 == WritePieces(r, <<IndentPiece(r), Color(st, st.list_color), marker,
                                    <<" ">>, Color(st, RESET)>>)
             r2 == RenderBlockTerm([r1 EXCEPT !.indent_level = @ + 1], st, b.items[idx])
         IN  RenderListTerm([r2 EXCEPT !.indent_level = @ - 1], st, b, idx + 1)

RenderListTerm(r, st, b, idx) ==
    IF idx > Len(b.items) THEN WritePieces(r, << <<"\n">> >>)
    ELSE LET marker == IF b.ordered THEN DecStr(idx) \o <<".">>
                       ELSE IF st.use_unicode_boxes THEN <<"U+2022">> ELSE <<"*">>
             r1 == WritePieces(r, <<IndentPiece(r), Color(st, st.list_color), marker,
                                    <<" ">>, Color(st, RESET)>>)
             r2 == RenderBlockTerm(r1, st, b.items[idx])
         IN  IF r2.res = "Ok" THEN RenderListTerm(r2, st, b, idx + 1) ELSE r2

RenderTaskListTerm(r, st, b, idx) ==
    IF idx > Len(b.items) THEN WritePieces(r, << <<"\n">> >>)
    ELSE LET checked == b.items[idx][1]
             box_char == IF st.use_unicode_boxes
                         THEN (IF checked THEN <<"U+2611">> ELSE <<"U+2610">>)
                         ELSE IF checked THEN <<"[", "x", "]">> ELSE <<"[", " ", "]">>
             r1 == WritePieces(r, <<IndentPiece(r), Color(st, st.list_color), box_char,
                                    <<" ">>, Color(st, RESET)>>)
             r2 == RenderBlockTerm(r1, st, b.items[idx][2])
         IN  RenderTaskListTerm(r2, st, b, idx + 1)

\* Mutant: no space between the bar and the line
TermQuoteLinePieces_NoSpace(r, st, block_content) ==
    LET border == IF st.use_unicode_boxes THEN <<"U+258E">> ELSE <<"|">>
        ls == Lines(block_content)
    IN  Flatten([k \in 1..Len(ls) |->
            <<IndentPiece(r), Color(st, DIM), Color(st, st.border_color), border,
              Color(st, RESET), ls[k], <<"\n">> >>])

\* The lines of one child's buffer, each behind the bar
TermQuoteLinePieces(r, st, block_content) ==
    LET border == IF st.use_unicode_boxes THEN <<"U+258E">> ELSE <<"|">>
        ls == Lines(block_content)
    IN  Flatten([k \in 1..Len(ls) |->
            <<IndentPiece(r), Color(st, DIM), Color(st, st.border_color), border,
              Color(st, RESET), <<" ">>, ls[k], <<"\n">> >>])

\* Mutant: indent_level is not decremented after the child
TermQuoteChild_KeepsIndent(r, st, child) ==
    IF r.res # "Ok" THEN r
    ELSE IF child.res # "Ok" THEN [r EXCEPT !.indent_level = @ + 1, !.res = child.res]
    ELSE [WritePieces(r, TermQuoteLinePieces(r, st, child.buf))
            EXCEPT !.indent_level = @ + 1]

\* One child of a Blockquote: indent_level += 1, the child is rendered by a new
\* renderer into a String (child is that renderer afterwards), indent_level -= 1,
\* and the lines of the String are written behind the bar
TermQuoteChild(r, st, child) ==
    IF r.res # "Ok" THEN r
    ELSE IF child.res # "Ok" THEN [r EXCEPT !.indent_level = @ + 1, !.res = child.res]
    ELSE WritePieces(r, TermQuoteLinePieces(r, st, child.buf))

\* Mutant: the child is rendered by a renderer that starts at the blockquote's
\* incremented indent_level
RenderBlockquoteTerm_ChildIndented(r, st, inner, i) ==
    IF i > Len(inner) THEN WritePieces(r, << <<"\n">> >>)
    ELSE RenderBlockquoteTerm(
            TermQuoteChild(r, st,
                RenderBlockTerm([NewTermRenderer(0, r.overflow_checks)
                                    EXCEPT !.indent_level = r.indent_level + 1],
                                st, inner[i])),
            st, inner, i + 1)

\* for block in inner.iter(), from child i (1-based) on
RenderBlockquoteTerm(r, st, inner, i) ==
    IF i > Len(inner) THEN WritePieces(r, << <<"\n">> >>)
    ELSE RenderBlockquoteTerm(
            TermQuoteChild(r, st,
                RenderBlockTerm(NewTermRenderer(0, r.overflow_checks), st, inner[i])),
            st, inner, i + 1)

RenderBlockTerm(r, st, b) ==
    CASE b.tag = "Paragraph" ->
            LET r1 == WritePieces(r, <<IndentPiece(r)>>)
                r2 == RenderInlinesTerm(r1, st, b.content)
            IN  WritePieces(r2, <<Color(st, RESET), <<"\n">> >>)
      [] b.tag = "Heading" ->
            \* (*level as usize - 1).min(5): at level 0 the subtraction overflows
            LET level_idx == IF b.level = 0 THEN MaxHeadingIndex
                             ELSE Min(b.level - 1, MaxHeadingIndex)
                r1 == WritePieces(r, << <<"\n">>, IndentPiece(r)>>)
                r2 == WritePieces(r1,
                        IF b.level = 0 /\ r.overflow_checks THEN <<Abort>>
                        ELSE <<Color(st, BOLD), Color(st, st.heading_colors[level_idx + 1]),
                               HeadingPrefix(st, level_idx)>>)
                r3 == RenderInlinesTerm(r2, st, b.content)
            IN  WritePieces(r3, <<Color(st, RESET), <<"\n">>, <<"\n">> >>)
      [] b.tag = "CodeBlock" ->
            LET top == IF st.use_unicode_boxes THEN <<"U+250C", BoxH>> ELSE <<"+", "-", "-">>
                left == IF st.use_unicode_boxes THEN <<BoxV>> ELSE <<"|">>
                bottom == IF st.use_unicode_boxes THEN <<"U+2514", BoxH>> ELSE <<"+", "-", "-">>
                ls == Lines(b.text)
            IN  WritePieces(r,
                    << <<"\n">>, IndentPiece(r), Color(st, DIM),
                       Color(st, st.border_color), top>>
                    \o (IF b.language # <<>>
                        THEN << <<"[", " ">>, b.language[1], <<" ", "]">> >>
                        ELSE << <<BoxH, BoxH, BoxH, BoxH>> >>)
                    \o <<Color(st, RESET), <<"\n">> >>
                    \o Flatten([k \in 1..Len(ls) |->
                            <<IndentPiece(r), Color(st, DIM), Color(st, st.border_color),
                              left, Color(st, RESET), <<" ">>,
                              Color(st, st.code_color), ls[k], <<"\n">> >>])
                    \o <<IndentPiece(r), Color(st, DIM), Color(st, st.border_color),
                         bottom, <<BoxH, BoxH, BoxH, BoxH>>, Color(st, RESET), <<"\n">>,
                         <<"\n">> >>)
      [] b.tag = "List" -> RenderListTerm(r, st, b, 1)
      [] b.tag = "TaskList" -> RenderTaskListTerm(r, st, b, 1)
      [] b.tag = "Table" -> WritePieces(r, TermTablePieces(r, st, b))
      [] b.tag = "Blockquote" -> RenderBlockquoteTerm(r, st, b.inner, 1)
      [] b.tag = "Image" -> WritePieces(r, <<Abort>>)
      [] b.tag = "HorizontalRule" ->
            WritePieces(r, <<IndentPiece(r), Color(st, DIM), Color(st, st.border_color),
                             Repeat(<<IF st.use_unicode_boxes THEN BoxH ELSE "-">>, RuleWidth),
                             Color(st, RESET), <<"\n">>, <<"\n">> >>)
      [] b.tag = "BlockList" -> RenderBlockListTerm(r, st, b.inner)

----------------------------------------------------------------------------
(* Inputs *)

SeqsUpTo(S, n) == UNION {[1..k -> S] : k \in 0..n}

MaxLevel == 7
MaxChildren == 2

\* Heading levels are u8
Levels == 0..MaxLevel \cup {255}

MdStyles ==
    {MdStyle(f, m, h) : f \in {"Backtick"}, m \in {"Dash"}, h \in {0, 3, 6, 255}}
    \cup {MdStyle("Tilde", "Asterisk", 2)}

\* Colour fields other than the defaults
TermRecolouredStyle ==
    [TermDefaultStyle EXCEPT
        !.heading_colors = <<Sgr(31), Sgr(33), Sgr(35), Sgr(91), Sgr(92), Sgr(95)>>,
        !.code_color = Sgr(95), !.code_bg = Sgr(47), !.link_color = Sgr(35),
        !.list_color = Sgr(31), !.border_color = Sgr(37)]

TermStyles ==
    {TermDefaultStyle, TermPlainStyle, TermAsciiStyle,
     [TermAsciiStyle EXCEPT !.use_colors = FALSE],
     [TermRecolouredStyle EXCEPT !.use_colors = FALSE, !.use_unicode_boxes = FALSE]}

ParagraphContents ==
    {<<Bold(<<Italic(<<Text(<<"x">>)>>), Text(<<"y">>)>>)>>,
     <<>>, <<Text(<<"a">>)>>, <<Text(<<"a", " ">>)>>, <<Text(<<"a">>), LineBreak>>,
     <<Bold(<<Italic(<<Text(<<"x">>)>>), Text(<<"y">>)>>), Code(<<"c">>)>>,
     <<Text(<<"#", "a", "\n", "b">>), Strikethrough(<<Text(<<"s">>)>>)>>,
     <<Link(<<Text(<<"t">>)>>, <<"u">>)>>,
     <<Strikethrough(<<Bold(<<Italic(<<Code(<<"*", "c">>), Text(<<"d">>)>>),
                              Text(<<"~">>)>>)>>),
       Italic(<<>>), Text(<<>>), Code(<<>>)>>,
     <<Italic(<<Text(<<"1">>), Strikethrough(<<Text(<<"2">>)>>), Text(<<"3">>)>>),
       Bold(<<Bold(<<Text(<<"b">>)>>)>>)>>,
     <<Bold(<<>>), Strikethrough(<<Italic(<<Text(<<"x">>)>>), Text(<<"y">>)>>)>>}

HeadingContents == {<<>>, <<Text(<<"#", "t">>)>>, <<Text(<<"t">>), Bold(<<Text(<<"b">>)>>)>>}

Headings == {Heading(l, c) : l \in Levels, c \in HeadingContents}

Paragraphs == {Paragraph(c) : c \in ParagraphContents}

QuoteChildren ==
    {Paragraph(<<Text(<<"a">>)>>), Paragraph(<<Text(<<"a", " ">>)>>),
     Paragraph(<<Text(<<"a">>), LineBreak>>), Paragraph(<<>>),
     Heading(3, <<Text(<<"b">>)>>),
     List(FALSE, <<Paragraph(<<Text(<<"a">>)>>), Paragraph(<<Text(<<"b">>)>>)>>),
     CodeBlock(<<>>, <<"a", "\n", "\n", "b">>), HorizontalRule}

Blockquotes ==
    {Blockquote(kids) : kids \in SeqsUpTo(QuoteChildren, MaxChildren)}
    \cup {Blockquote(<<Blockquote(kids)>> \o rest) :
            kids \in SeqsUpTo(QuoteChildren, 1),
            rest \in {<<>>, <<Paragraph(<<Text(<<"z">>)>>)>>}}
    \cup {Blockquote(<<BlockList(<<>>), Paragraph(<<Text(<<"z">>)>>)>>),
          Blockquote(<<Image(<<"i">>, <<"u">>)>>)}

\* Option<String> languages (<<>> is None) and contents: empty, with blank lines,
\* ending in a newline, holding a fence of either kind
CodeLanguages == {<<>>, << <<"r", "s">> >>, << <<>> >>}

CodeContents ==
    {<<>>, <<"a">>, <<"a", "\n", "\n", " ", "b">>, <<"x", "\n">>,
     <<BACKTICK, BACKTICK, BACKTICK>>, <<"~", "~", "~", "\n", "y">>}

CodeBlocks == {CodeBlock(l, c) : l \in CodeLanguages, c \in CodeContents}

BlockListChildren ==
    {Paragraph(<<Text(<<"a">>)>>), Heading(2, <<Text(<<"t">>)>>), Heading(0, <<>>),
     HorizontalRule, CodeBlock(<<>>, <<"c">>),
     Blockquote(<<Paragraph(<<Text(<<"q">>)>>)>>),
     BlockList(<<>>), BlockList(<<Paragraph(<<Text(<<"z">>)>>), HorizontalRule>>),
     Image(<<"i">>, <<"u">>)}

BlockLists == {BlockList(bs) : bs \in SeqsUpTo(BlockListChildren, MaxChildren)}

ListItems ==
    {Paragraph(<<Text(<<"a">>)>>), Paragraph(<<Bold(<<Text(<<"b">>)>>), Code(<<"c">>)>>),
     List(TRUE, <<Paragraph(<<Text(<<"n">>)>>)>>), HorizontalRule}

\* A list long enough for two-digit numbers
LongListLen == 11

Lists ==
    {List(o, its) : o \in BOOLEAN, its \in SeqsUpTo(ListItems, MaxChildren)}
    \cup {List(o, [i \in 1..LongListLen |-> Paragraph(<<Text(<<"a">>)>>)]) : o \in BOOLEAN}
    \cup {List(FALSE, <<Blockquote(<<List(TRUE, <<Paragraph(<<Text(<<"q">>)>>)>>)>>),
                         Paragraph(<<Text(<<"a">>), LineBreak, Text(<<"b">>)>>)>>)}

TaskItems ==
    {<<TRUE, Paragraph(<<Text(<<"d">>)>>)>>,
     <<FALSE, Paragraph(<<Link(<<Text(<<"t">>)>>, <<"u">>)>>)>>}

TaskLists == {TaskList(its) : its \in SeqsUpTo(TaskItems, MaxChildren)}
    \cup {TaskList(<< <<TRUE, Blockquote(<<Paragraph(<<Text(<<"q">>)>>)>>)>>,
                      <<FALSE, BlockList(<<Paragraph(<<Text(<<"z">>)>>)>>)>> >>)}

DocTables ==
    {Table(<<>>, <<>>, <<>>),
     Table(<<Text(<<"h">>), Bold(<<Text(<<"x">>)>>)>>,
           << <<Code(<<"c">>), Link(<<Text(<<"t">>)>>, <<"u">>)>>, <<>> >>,
           <<"Center">>),
     Table(<<Text(<<"a">>)>>, << <<Text(<<"l", "o", "n", "g">>), Text(<<"e">>)>> >>,
           <<"Right", "Left">>),
     Table(<<Text(<<"a">>)>>, << <<LineBreak>> >>, <<"Left">>),
     Table(<<Text(<<"a">>), Text(<<"b">>)>>, << <<Text(<<"c">>), LineBreak>> >>, <<>>)}

DocBlocks ==
    Headings \cup Paragraphs \cup Blockquotes \cup CodeBlocks \cup BlockLists
    \cup Lists \cup TaskLists \cup DocTables
    \cup {HorizontalRule, Image(<<"i">>, <<"u">>)}

MaxBlocks == 2
MaxFail == 16

SinkBlocks ==
    {Paragraph(<<Text(<<"a">>), Bold(<<Text(<<"b">>)>>)>>),
     Heading(2, <<Text(<<"t">>)>>),
     Heading(0, <<>>),
     Blockquote(<<Paragraph(<<Text(<<"q">>)>>), HorizontalRule>>),
     List(TRUE, <<Paragraph(<<Code(<<"c">>)>>)>>),
     Table(<<Text(<<"h">>)>>, << <<Text(<<"c">>)>> >>, <<"Left">>),
     Image(<<"i">>, <<"u">>),
     Blockquote(<<>>),
     Table(<<>>, << <<Text(<<"c">>)>> >>, <<"Left">>),
     Table(<<Text(<<"h">>)>>, << <<>>, <<Text(<<"a">>), Text(<<"b">>)>> >>, <<>>)}

MaxRows == 2

TableHeaders ==
    {<<>>, <<Text(<<"a">>)>>,
     <<Text(<<"N", "a", "m", "e">>), Text(<<"a", "b">>)>>,
     <<Bold(<<Text(<<"x">>)>>), Text(<<"a">>), Link(<<Text(<<"t">>)>>, <<"u">>)>>}

\* Body rows: shorter and longer than the headers, cells wider and narrower
\* than the floor, cells whose rendering is longer than their measure
TableRows ==
    {<<>>, <<Text(<<"A", "l", "i", "c", "e">>)>>,
     <<Text(<<"B", "o", "b">>), Text(<<"2", "5">>)>>,
     <<Text(<<"x">>), Italic(<<Text(<<"l", "o", "n", "g">>)>>), Code(<<"c">>),
       Text(<<"e", "x", "t", "r", "a", "!">>)>>,
     <<LineBreak, Text(<<>>)>>,
     <<Text(<<"z">>), Image(<<"i">>, <<"u">>)>>}

TableAlignments ==
    {<<>>, <<"Center">>, <<"Left", "Right">>, <<"Right", "Center", "Left">>,
     <<"Left", "Center", "Right", "Center">>}

Tables ==
    {Table(h, rs, a) : h \in TableHeaders, rs \in SeqsUpTo(TableRows, MaxRows),
                       a \in TableAlignments}

----------------------------------------------------------------------------
(* The state machine: a renderer is constructed over a sink, then renders *)

\* Renderer::with_style(writer, style), and the document to render
Constructed(t, st, doc, failAt) ==
    /\ target = t
    /\ style = st
    /\ input = doc
    /\ writer = [buf |-> <<>>, log |-> <<>>, failAt |-> failAt]
    /\ indent_level = 0
    /\ result = "None"
    /\ pc = "new"
    /\ calls = 0

Init ==
    \E doc \in {<<b>> : b \in DocBlocks} :
        \/ \E st \in MdStyles : Constructed("md", st, doc, 0)
        \/ \E st \in TermStyles : Constructed("term", st, doc, 0)

\* md::Renderer::render(&input): the slice of Blocks, rendered to the sink
MdRender ==
    /\ pc = "new"
    /\ target = "md"
    /\ LET r == RenderBlocksMd(NewRenderer(writer.failAt), style, input)
       IN  /\ writer' = [buf |-> r.buf, log |-> r.log, failAt |-> r.failAt]
           /\ result' = r.res
    /\ pc' = "done"
    /\ calls' = calls + 1
    /\ UNCHANGED <<target, style, input, indent_level>>

\* term::Renderer::render(&input), in a build with or without overflow checks
TermRender ==
    /\ pc = "new"
    /\ target = "term"
    /\ \E overflow_checks \in BOOLEAN :
        LET r == RenderBlocksTerm(NewTermRenderer(writer.failAt, overflow_checks),
                                  style, input)
        IN  /\ writer' = [buf |-> r.buf, log |-> r.log, failAt |-> r.failAt]
            /\ result' = r.res
            /\ indent_level' = r.indent_level
    /\ pc' = "done"
    /\ calls' = calls + 1
    /\ UNCHANGED <<target, style, input>>

Next == MdRender \/ TermRender

Spec == Init /\ [][Next]_vars

\* The same renderers over a sink that rejects one of its first MaxFail writes
InitSink ==
    \E doc \in SeqsUpTo(SinkBlocks, MaxBlocks), failAt \in 0..MaxFail :
        \/ Constructed("md", MdDefaultStyle, doc, failAt)
        \/ \E st \in {TermDefaultStyle, [TermAsciiStyle EXCEPT !.use_colors = FALSE]} :
              Constructed("term", st, doc, failAt)

SpecSink == InitSink /\ [][Next]_vars

\* The same renderers, constructed to render one Table
InitTable ==
    \E t \in Tables :
        \/ Constructed("md", MdDefaultStyle, <<t>>, 0)
        \/ \E st \in {TermDefaultStyle, [TermAsciiStyle EXCEPT !.use_colors = FALSE]} :
              Constructed("term", st, <<t>>, 0)

SpecTable == InitTable /\ [][Next]_vars

\* Blocks rendered one call after the other on the same renderer
CallBlocks ==
    {Paragraph(<<Text(<<"a">>), LineBreak, Text(<<"b">>)>>),
     Heading(2, <<Text(<<"t">>)>>), Heading(0, <<>>),
     Blockquote(<<Paragraph(<<Text(<<"q">>)>>), HorizontalRule>>),
     List(FALSE, <<Paragraph(<<Code(<<"c">>)>>)>>),
     CodeBlock(<<>>, <<"x", "\n", "y">>),
     BlockList(<<Blockquote(<<Blockquote(<<Paragraph(<<Text(<<"n">>)>>)>>)>>),
                 HorizontalRule>>),
     Table(<<Text(<<"h">>)>>, << <<Text(<<"c">>)>> >>, <<"Left">>)}

MaxCalls == 3

InitCalls ==
    \E b \in CallBlocks :
        \/ \E st \in {MdDefaultStyle, MdStyle("Tilde", "Asterisk", 2)} :
              Constructed("md", st, <<b>>, 0)
        \/ \E st \in {TermDefaultStyle, [TermAsciiStyle EXCEPT !.use_colors = FALSE]} :
              Constructed("term", st, <<b>>, 0)

\* md::Renderer::render(&b) once more on the renderer, after a call that returned
MdRenderAgain ==
    /\ pc = "done"
    /\ target = "md"
    /\ result # "Panic"
    /\ calls < MaxCalls
    /\ \E b \in CallBlocks :
        LET r == RenderBlockMd([buf |-> writer.buf, log |-> writer.log,
                                failAt |-> writer.failAt, res |-> "Ok"], style, b)
        IN  /\ input' = <<b>>
            /\ writer' = [buf |-> r.buf, log |-> r.log, failAt |-> r.failAt]
            /\ result' = r.res
    /\ calls' = calls + 1
    /\ UNCHANGED <<target, style, indent_level, pc>>

\* term::Renderer::render(&b) once more on the renderer: the sink and
\* indent_level are as the earlier calls left them
TermRenderAgain ==
    /\ pc = "done"
    /\ target = "term"
    /\ result # "Panic"
    /\ calls < MaxCalls
    /\ \E b \in CallBlocks, overflow_checks \in BOOLEAN :
        LET r == RenderBlockTerm([buf |-> writer.buf, log |-> writer.log,
                                  failAt |-> writer.failAt, res |-> "Ok",
                                  indent_level |-> indent_level,
                                  overflow_checks |-> overflow_checks], style, b)
        IN  /\ input' = <<b>>
            /\ writer' = [buf |-> r.buf, log |-> r.log, failAt |-> r.failAt]
            /\ result' = r.res
            /\ indent_level' = r.indent_level
    /\ calls' = calls + 1
    /\ UNCHANGED <<target, style, pc>>

NextCalls == MdRender \/ TermRender \/ MdRenderAgain \/ TermRenderAgain

SpecCalls == InitCalls /\ [][NextCalls]_vars

----------------------------------------------------------------------------
(* Properties *)

MdDone == pc = "done" /\ target = "md"
TermDone == pc = "done" /\ target = "term"

\* The greatest element of a finite set of numbers
MaxOf(S) == CHOOSE m \in S : \A x \in S : x <= m

\* What the Markdown renderer writes for a slice of inlines, into a String
MdInlinesText(xs) == RenderInlinesMd(NewString, xs).buf

\* C3: the Markdown output of a Heading of level L is min(L, max_heading) '#'
\* characters, one space, the rendered inlines and a newline.
HeadingClamp ==
    (MdDone /\ input[1].tag = "Heading") =>
        LET L == input[1].level
            n == IF L <= style.max_heading THEN L ELSE style.max_heading
        IN  /\ result = "Ok"
            /\ writer.buf = [i \in 1..n |-> "#"] \o <<" ">>
                            \o MdInlinesText(input[1].content) \o <<"\n">>

HeadingClampWitness ==
    /\ MdDone
    /\ input[1].tag = "Heading"
    /\ input[1].level > style.max_heading
    /\ style.max_heading > 0
    /\ result = "Ok"

\* What the Markdown renderer writes for one block, into a String
MdBlockText(st, b) == RenderBlockMd(NewString, st, b).buf

\* s without its trailing newline characters
RECURSIVE WithoutTrailingNewlines(_)
WithoutTrailingNewlines(s) ==
    IF s # <<>> /\ s[Len(s)] = "\n" THEN WithoutTrailingNewlines(SubSeq(s, 1, Len(s) - 1))
    ELSE s

\* Every line of text behind "> ", and a ">" line when the child is not the last
QuotedLines(text, last) ==
    LET ls == Lines(text)
    IN  Flatten([k \in 1..Len(ls) |-> <<">", " ">> \o ls[k] \o <<"\n">>])
        \o (IF last THEN <<>> ELSE <<">", "\n">>)

\* C10: a Markdown Blockquote writes, for each child in order, every line of the
\* child's own rendering (trailing newlines removed) as "> " + line + newline,
\* and a ">" line after each child except the last.
BlockquotePrefixesLines ==
    (MdDone /\ input[1].tag = "Blockquote") =>
        LET kids == input[1].inner
        IN  /\ result = "Ok"
            /\ writer.buf =
                 Flatten([i \in 1..Len(kids) |->
                    QuotedLines(WithoutTrailingNewlines(MdBlockText(style, kids[i])),
                                i = Len(kids))])

\* The fence as stated: three backticks or three tildes
StatedFence == IF style.code_fence = "Backtick" THEN <<BACKTICK, BACKTICK, BACKTICK>>
               ELSE <<"~", "~", "~">>

\* C11: the Markdown output of a CodeBlock with content c is, under either
\* fence style, fence + newline + c + newline + fence + newline + newline with
\* c verbatim; with language Some(l) the first line is fence + l.
CodeBlockVerbatim ==
    (MdDone /\ input[1].tag = "CodeBlock") =>
        LET b == input[1]
            first == IF b.language = <<>> THEN StatedFence
                     ELSE StatedFence \o b.language[1]
        IN  /\ result = "Ok"
            /\ writer.buf = first \o <<"\n">> \o b.text \o <<"\n">>
                            \o StatedFence \o <<"\n", "\n">>

CodeBlockVerbatimWitness ==
    /\ MdDone
    /\ input[1].tag = "CodeBlock"
    /\ style.code_fence = "Tilde"
    /\ input[1].language # <<>>
    /\ input[1].text = <<"~", "~", "~", "\n", "y">>
    /\ Len(writer.buf) = 17

\* Inlines made of Text, Bold, Italic, Strikethrough and Code only
RECURSIVE IsWrapperTree(_)
IsWrapperTree(xs) ==
    \A i \in 1..Len(xs) :
        \/ xs[i].tag \in {"Text", "Code"}
        \/ /\ xs[i].tag \in {"Bold", "Italic", "Strikethrough"}
           /\ IsWrapperTree(xs[i].content)

\* The nesting depth of a slice of inlines
RECURSIVE InlineDepth(_)
InlineDepth(xs) ==
    IF xs = <<>> THEN 0
    ELSE MaxOf({IF xs[i].tag \in {"Bold", "Italic", "Strikethrough", "Link"}
                THEN 1 + InlineDepth(xs[i].content) ELSE 1 : i \in 1..Len(xs)})

\* The Markdown of a slice of inlines as stated: the children in order, each
\* wrapper's children between its delimiters
RECURSIVE StatedInlinesMd(_)
StatedInlinesMd(xs) ==
    Flatten([i \in 1..Len(xs) |->
        CASE xs[i].tag = "Text" -> xs[i].text
          [] xs[i].tag = "Code" -> <<BACKTICK>> \o xs[i].text \o <<BACKTICK>>
          [] xs[i].tag = "Bold" ->
                <<"*", "*">> \o StatedInlinesMd(xs[i].content) \o <<"*", "*">>
          [] xs[i].tag = "Italic" -> <<"*">> \o StatedInlinesMd(xs[i].content) \o <<"*">>
          [] xs[i].tag = "Strikethrough" ->
                <<"~", "~">> \o StatedInlinesMd(xs[i].content) \o <<"~", "~">>])

\* C12: the Markdown renderer writes Text(s) as s, Code(s) as '`' + s + '`', and
\* Bold, Italic and Strikethrough as their children, rendered in order, between
\* '**', '*' and '~~', at any nesting depth (seen through a Paragraph, which
\* adds one newline).
InlineWrappersNest ==
    (MdDone /\ input[1].tag = "Paragraph" /\ IsWrapperTree(input[1].content)) =>
        /\ result = "Ok"
        /\ writer.buf = StatedInlinesMd(input[1].content) \o <<"\n">>

InlineWrappersNestWitness ==
    /\ MdDone
    /\ input[1].tag = "Paragraph"
    /\ IsWrapperTree(input[1].content)
    /\ InlineDepth(input[1].content) = 4
    /\ Len(input[1].content) = 4
    /\ result = "Ok"
    /\ SubSeq(writer.buf, 1, 7) = <<"~", "~", "*", "*", "*", BACKTICK, "*">>

\* One block rendered by a new renderer of the constructed kind and style into
\* a String, in a build with or without overflow checks
FreshRender(b, overflow_checks) ==
    IF target = "md" THEN RenderBlockMd(NewString, style, b)
    ELSE RenderBlockTerm(NewTermRenderer(0, overflow_checks), style, b)

\* C13: in both renderers BlockList(bs) writes what rendering the elements of
\* bs one after the other writes and nothing of its own: the writes are those
\* of the elements in order, up to and including the first element that does
\* not return Ok, and an empty BlockList makes no write.
BlockListIsSequence ==
    (pc = "done" /\ input[1].tag = "BlockList") =>
        \E oc \in BOOLEAN :
            LET kids == input[1].inner
                bad == {i \in 1..Len(kids) : FreshRender(kids[i], oc).res # "Ok"}
                n == IF bad = {} THEN Len(kids)
                     ELSE CHOOSE i \in bad : \A j \in bad : i <= j
            IN  /\ result = (IF bad = {} THEN "Ok" ELSE FreshRender(kids[n], oc).res)
                /\ writer.log = Flatten([i \in 1..n |-> FreshRender(kids[i], oc).log])
                /\ writer.buf = Flatten([i \in 1..n |-> FreshRender(kids[i], oc).buf])
                /\ kids = <<>> => writer.log = <<>>

BlockListIsSequenceWitness ==
    /\ pc = "done"
    /\ target = "term"
    /\ input[1].tag = "BlockList"
    /\ Len(input[1].inner) = 2
    /\ input[1].inner[1].tag = "Blockquote"
    /\ input[1].inner[2].tag = "BlockList"
    /\ input[1].inner[2].inner # <<>>
    /\ result = "Ok"
    /\ writer.buf # <<>>

\* A render call was made in this step and returned Ok: what it appended to
\* the sink is what a new renderer of the same style writes for the block
AppendsFreshOutput ==
    (calls' = calls + 1 /\ result' = "Ok") =>
        \E oc \in BOOLEAN :
            /\ FreshRender(input'[1], oc).res = "Ok"
            /\ writer'.buf = writer.buf \o FreshRender(input'[1], oc).buf
            /\ writer'.log = writer.log \o FreshRender(input'[1], oc).log

\* C14: in both renderers, after any sequence of render calls that returned
\* Ok, a render call on the same renderer appends the bytes a new renderer of
\* the same style writes for the same block; so equal blocks give equal bytes
\* wherever in the sequence they are rendered.
RenderIsStateless == [][AppendsFreshOutput]_vars

RenderIsStatelessWitness ==
    /\ pc = "done"
    /\ target = "term"
    /\ calls = 3
    /\ result = "Ok"
    /\ indent_level = 0
    /\ input[1].tag = "BlockList"
    /\ \E oc \in BOOLEAN :
          writer.buf = FreshRender(CHOOSE b \in CallBlocks : b.tag = "Blockquote", oc).buf
                       \o FreshRender(input[1], oc).buf \o FreshRender(input[1], oc).buf

PlainAscii == ~style.use_colors /\ ~style.use_unicode_boxes

\* C15: with use_colors = false and use_unicode_boxes = false, whatever the
\* colour fields of the style, the terminal renderer writes no ESC character
\* for a tree whose strings hold none.
PlainHasNoEscape ==
    (TermDone /\ PlainAscii) => \A i \in 1..Len(writer.buf) : writer.buf[i] # ESC

PlainHasNoEscapeWitness ==
    /\ TermDone
    /\ PlainAscii
    /\ style.code_color # TermDefaultStyle.code_color
    /\ input[1].tag = "Table"
    /\ Len(input[1].headers) = 2
    /\ result = "Ok"
    /\ Len(writer.buf) > 20

\* The characters outside ASCII that the terminal renderer has among its glyphs
UnicodeGlyphs ==
    {HeadingGlyphs[i] : i \in 1..Len(HeadingGlyphs)}
    \cup {BoxH, BoxV, "U+250C", "U+2510", "U+2514", "U+2518", "U+253C", "U+252C",
          "U+2534", "U+251C", "U+2524", "U+2022", "U+2611", "U+2610", "U+258E"}

\* C16: with use_unicode_boxes = false every framing glyph the terminal renderer
\* writes, for every block kind, is an ASCII character: the output of a tree
\* whose strings are ASCII holds no Unicode glyph.
AsciiGlyphsOnly ==
    (TermDone /\ ~style.use_unicode_boxes) =>
        \A i \in 1..Len(writer.buf) : writer.buf[i] \notin UnicodeGlyphs

\* Inlines made of Text, Bold, Italic and Strikethrough only
RECURSIVE IsMarkTree(_)
IsMarkTree(xs) ==
    \A i \in 1..Len(xs) :
        \/ xs[i].tag = "Text"
        \/ /\ xs[i].tag \in {"Bold", "Italic", "Strikethrough"}
           /\ IsMarkTree(xs[i].content)

\* The terminal text of a slice of inlines as stated: with colours each mark's
\* children between its code and ESC[0m, without colours the children alone
RECURSIVE StatedInlinesTerm(_)
StatedInlinesTerm(xs) ==
    Flatten([i \in 1..Len(xs) |->
        IF xs[i].tag = "Text" THEN xs[i].text
        ELSE IF ~style.use_colors THEN StatedInlinesTerm(xs[i].content)
        ELSE <<ESC, "[">>
             \o (CASE xs[i].tag = "Bold" -> <<"1">>
                   [] xs[i].tag = "Italic" -> <<"3">>
                   [] xs[i].tag = "Strikethrough" -> <<"9">>)
             \o <<"m">> \o StatedInlinesTerm(xs[i].content) \o <<ESC, "[", "0", "m">>])

\* C17: with colours the terminal renderer writes Bold(xs), Italic(xs) and
\* Strikethrough(xs) as ESC[1m, ESC[3m, ESC[9m + the rendered xs + ESC[0m, and
\* a Paragraph ends with ESC[0m and a newline; without colours the same nodes
\* write the rendered children only (and the Paragraph its newline).
TermMarksWrap ==
    (TermDone /\ input[1].tag = "Paragraph" /\ IsMarkTree(input[1].content)) =>
        /\ result = "Ok"
        /\ writer.buf = StatedInlinesTerm(input[1].content)
                        \o (IF style.use_colors THEN <<ESC, "[", "0", "m">> ELSE <<>>)
                        \o <<"\n">>

TermMarksWrapWitness ==
    /\ TermDone
    /\ style.use_colors
    /\ input[1].tag = "Paragraph"
    /\ IsMarkTree(input[1].content)
    /\ InlineDepth(input[1].content) = 3
    /\ result = "Ok"
    /\ SubSeq(writer.buf, 1, 9) = <<ESC, "[", "3", "m", "1", ESC, "[", "9", "m">>

\* C18: in both renderers a Heading of level 0 renders without failure and
\* writes exactly what the Heading of level 1 with the same content writes.
HeadingZeroAsOne ==
    (pc = "done" /\ input[1].tag = "Heading" /\ input[1].level = 0) =>
        /\ result = "Ok"
        /\ writer.buf = FreshRender(Heading(1, input[1].content), TRUE).buf

\* Does the tree hold an Image node
RECURSIVE InlinesHaveImage(_)
InlinesHaveImage(xs) ==
    \E i \in 1..Len(xs) :
        \/ xs[i].tag = "Image"
        \/ /\ xs[i].tag \in {"Bold", "Italic", "Strikethrough", "Link"}
           /\ InlinesHaveImage(xs[i].content)

RECURSIVE BlockHasImage(_)
BlockHasImage(b) ==
    CASE b.tag \in {"Paragraph", "Heading"} -> InlinesHaveImage(b.content)
      [] b.tag \in {"Blockquote", "BlockList"} ->
            \E i \in 1..Len(b.inner) : BlockHasImage(b.inner[i])
      [] b.tag = "List" -> \E i \in 1..Len(b.items) : BlockHasImage(b.items[i])
      [] b.tag = "TaskList" -> \E i \in 1..Len(b.items) : BlockHasImage(b.items[i][2])
      [] b.tag = "Table" ->
            \/ InlinesHaveImage(b.headers)
            \/ \E k \in 1..Len(b.rows) : InlinesHaveImage(b.rows[k])
      [] b.tag = "Image" -> TRUE
      [] OTHER -> FALSE

\* C19: for a tree without an Image node a terminal rendering call returns Ok
\* or the first write error; it does not abort (panic, unreachable, overflow).
TermNeverAborts ==
    (TermDone /\ \A i \in 1..Len(input) : ~BlockHasImage(input[i])) =>
        result \in {"Ok", "Err"}

\* C20: a Markdown rendering call on any tree (an empty Blockquote, a Table
\* with no headers, rows longer or shorter than the headers, alignments of any
\* length, a Heading of any level) returns Ok, or the error of the sink's
\* rejected write; it does not abort.
MdNeverAborts ==
    MdDone =>
        /\ result \in {"Ok", "Err"}
        /\ result = "Err" <=> (writer.failAt > 0 /\ Len(writer.log) = writer.failAt)

MdNeverAbortsWitness ==
    /\ MdDone
    /\ Len(input) = 2
    /\ input[1] = Blockquote(<<>>)
    /\ input[2].tag = "Table"
    /\ input[2].headers = <<>>
    /\ input[2].rows # <<>>
    /\ result = "Ok"
    /\ writer.buf = <<"|", "\n", "|", "\n", "|", "\n", "\n">>

\* Every line of text behind the ASCII bar and one space
BarredLines(text) ==
    LET ls == Lines(text)
    IN  Flatten([k \in 1..Len(ls) |-> <<"|", " ">> \o ls[k] \o <<"\n">>])

\* C21: with colours off and ASCII glyphs, a top-level terminal Blockquote
\* writes each line L of each child's own rendering as '| ' + L + newline, and
\* one blank line after the last child; a Paragraph([Text(s)]) child gives the
\* line '| ' + s, a level-3 Heading child the line '| ### ' + text.
TermBlockquoteBars ==
    (/\ TermDone
     /\ PlainAscii
     /\ input[1].tag = "Blockquote"
     /\ \A i \in 1..Len(input[1].inner) :
            FreshRender(input[1].inner[i], TRUE).res = "Ok") =>
        LET kids == input[1].inner
        IN  /\ result = "Ok"
            /\ writer.buf =
                 Flatten([i \in 1..Len(kids) |->
                            BarredLines(FreshRender(kids[i], TRUE).buf)])
                 \o <<"\n">>
            /\ \A i \in 1..Len(kids) :
                 /\ (kids[i].tag = "Paragraph" /\ Len(kids[i].content) = 1
                        /\ kids[i].content[1].tag = "Text") =>
                      BarredLines(FreshRender(kids[i], TRUE).buf) =
                         <<"|", " ">> \o kids[i].content[1].text \o <<"\n">>
                 /\ (kids[i].tag = "Heading" /\ kids[i].level = 3
                        /\ Len(kids[i].content) = 1 /\ kids[i].content[1].tag = "Text") =>
                      BarredLines(FreshRender(kids[i], TRUE).buf) =
                         <<"|", " ", "\n">>
                         \o <<"|", " ", "#", "#", "#", " ">> \o kids[i].content[1].text
                         \o <<"\n">> \o <<"|", " ", "\n">>

TermBlockquoteBarsWitness ==
    /\ TermDone
    /\ PlainAscii
    /\ input[1].tag = "Blockquote"
    /\ Len(input[1].inner) = 2
    /\ input[1].inner[1].tag = "Heading"
    /\ input[1].inner[2] = Paragraph(<<Text(<<"a", " ">>)>>)
    /\ result = "Ok"
    /\ writer.buf = <<"|", " ", "\n", "|", " ", "#", "#", "#", " ", "b", "\n",
                      "|", " ", "\n", "|", " ", "a", " ", "\n", "\n">>

\* The number n < 100 in decimal
StatedNumber(n) ==
    LET d == <<"0", "1", "2", "3", "4", "5", "6", "7", "8", "9">>
    IN  IF n < 10 THEN <<d[n + 1]>> ELSE <<d[(n \div 10) + 1], d[(n % 10) + 1]>>

\* C22: the Markdown of List{ordered, items} is, for the item at 0-based
\* position idx, (idx+1) + '. ' when ordered and the configured marker ('-' or
\* '*') + ' ' otherwise, then the item block and a newline, and one more
\* newline after the last item; a TaskList item is preceded by '- [x] ' when
\* checked and by '- [ ] ' otherwise.
ListMarkers ==
    /\ (MdDone /\ input[1].tag = "List") =>
          LET b == input[1]
              marker(i) == IF b.ordered THEN StatedNumber(i) \o <<".", " ">>
                           ELSE IF style.list_marker = "Asterisk" THEN <<"*", " ">>
                           ELSE <<"-", " ">>
          IN  /\ result = "Ok"
              /\ writer.buf =
                   Flatten([i \in 1..Len(b.items) |->
                        marker(i) \o MdBlockText(style, b.items[i]) \o <<"\n">>])
                   \o <<"\n">>
    /\ (MdDone /\ input[1].tag = "TaskList") =>
          LET b == input[1]
              box(i) == IF b.items[i][1] THEN <<"-", " ", "[", "x", "]", " ">>
                        ELSE <<"-", " ", "[", " ", "]", " ">>
          IN  /\ result = "Ok"
              /\ writer.buf =
                   Flatten([i \in 1..Len(b.items) |->
                        box(i) \o MdBlockText(style, b.items[i][2]) \o <<"\n">>])
                   \o <<"\n">>

ListMarkersWitness ==
    /\ MdDone
    /\ input[1].tag = "List"
    /\ input[1].ordered
    /\ Len(input[1].items) = LongListLen
    /\ result = "Ok"
    /\ SubSeq(writer.buf, Len(writer.buf) - 7, Len(writer.buf))
         = <<"1", "1", ".", " ", "a", "\n", "\n", "\n">>

\* Is p a prefix of s
IsPrefix(p, s) == Len(p) <= Len(s) /\ SubSeq(s, 1, Len(p)) = p

\* Element i of the input rendered alone, by the constructed renderer's kind,
\* over a sink that rejects its k-th write (0: none)
ElementAlone(i, k) ==
    IF target = "md" THEN RenderBlockMd(NewRenderer(k), style, input[i])
    ELSE RenderBlockTerm(NewTermRenderer(k, TRUE), style, input[i])

\* The writes element i makes on a sink that accepts them all
ElementWrites(i) == Len(ElementAlone(i, 0).log)

\* No element of the input panics (an Image, a Heading of level 0 in the
\* terminal renderer)
NoElementPanics == \A i \in 1..Len(input) : ElementAlone(i, 0).res = "Ok"

\* C1: a slice renders its elements in order and returns the first failure;
\* nothing is written for the elements after the failing one, and the
\* result is Ok once all elements were rendered.
SliceFirstFailure ==
    (pc = "done" /\ NoElementPanics) =>
        LET before(i) == SumSeq([j \in 1..(i - 1) |-> ElementWrites(j)])
            k == writer.failAt
            failing == {i \in 1..Len(input) : before(i) < k /\ k <= before(i) + ElementWrites(i)}
        IN  IF failing = {}
            THEN /\ result = "Ok"
                 /\ writer.buf = Flatten([i \in 1..Len(input) |-> ElementAlone(i, 0).buf])
            ELSE \E j \in failing :
                    /\ result = "Err"
                    /\ Len(writer.log) = k
                    /\ writer.buf =
                         Flatten([i \in 1..(j - 1) |-> ElementAlone(i, 0).buf])
                         \o ElementAlone(j, k - before(j)).buf

SliceFirstFailureWitness ==
    /\ pc = "done"
    /\ NoElementPanics
    /\ Len(input) = 2
    /\ result = "Err"
    /\ writer.failAt <= ElementWrites(1)
    /\ writer.buf # <<>>

\* The whole input rendered over a sink that accepts every write
RenderedInFull(overflow_checks) ==
    IF target = "md" THEN RenderBlocksMd(NewRenderer(0), style, input)
    ELSE RenderBlocksTerm(NewTermRenderer(0, overflow_checks), style, input)

\* C2: when the sink rejects the k-th write, the call returns the error, makes
\* no write after it, and the sink holds the first k-1 writes, a prefix of what
\* a sink that never fails receives.
SinkFailurePropagates ==
    (pc = "done" /\ writer.failAt > 0 /\ Len(writer.log) >= writer.failAt) =>
        /\ result = "Err"
        /\ Len(writer.log) = writer.failAt
        /\ writer.buf = Flatten(SubSeq(writer.log, 1, writer.failAt - 1))
        /\ \E oc \in BOOLEAN :
              /\ IsPrefix(writer.buf, RenderedInFull(oc).buf)
              /\ IsPrefix(SubSeq(writer.log, 1, writer.failAt - 1), RenderedInFull(oc).log)

SinkFailurePropagatesWitness ==
    /\ pc = "done"
    /\ result = "Err"
    /\ writer.failAt > 4
    /\ Len(input) = 2
    /\ input[2].tag = "Table"
    /\ Len(writer.buf) > 4

----------------------------------------------------------------------------
(* Properties of tables *)

MdTableDone == MdDone /\ input[1].tag = "Table"

\* The rows of t that have a cell in column i
RowsWithCell(t, i) == {k \in 1..Len(t.rows) : i <= Len(t.rows[k])}

\* The measures of the cells of column i: the header's and the rows'
MdColumnMeasures(t, i) ==
    {MeasureInlineMd(t.headers[i])}
    \cup {MeasureInlineMd(t.rows[k][i]) : k \in RowsWithCell(t, i)}

TermColumnMeasures(t, i) ==
    {TermMeasureInline(t.headers[i])}
    \cup {TermMeasureInline(t.rows[k][i]) : k \in RowsWithCell(t, i)}

\* W[i] as stated: the greatest of 3 and the measures of the column's cells
ColumnWidth(measures) == MaxOf({3} \cup measures)

\* s, then spaces up to w characters
RightPadded(s, w) == s \o [i \in 1..(IF w > Len(s) THEN w - Len(s) ELSE 0) |-> " "]

\* A header or body row as stated: '|', then ' ' + padded cell + ' |' for each
\* column, then a newline
MdRowText(t, cells) ==
    <<"|">>
    \o Flatten([i \in 1..Len(t.headers) |->
            <<" ">>
            \o RightPadded(IF i <= Len(cells) THEN MdToString(cells[i]) ELSE <<>>,
                           ColumnWidth(MdColumnMeasures(t, i)))
            \o <<" ", "|">>])
    \o <<"\n">>

\* The separator row the Markdown renderer writes for table t
MdSeparatorText(t) ==
    Flatten(MdSeparatorRowPieces(MdTableWidths(t.headers, t.rows), t.alignments))

\* C5: a Markdown Table is the header row, the separator row, the body rows
\* and one blank line; every header and body row is '|' followed for each
\* column by ' ' + the rendered cell padded on the right with spaces to W[i]
\* + ' |' and a newline, W[i] being max(3, measures of the column's cells).
TableLayout ==
    MdTableDone =>
        LET t == input[1]
        IN  /\ result = "Ok"
            /\ writer.buf =
                 MdRowText(t, t.headers)
                 \o MdSeparatorText(t)
                 \o Flatten([k \in 1..Len(t.rows) |-> MdRowText(t, t.rows[k])])
                 \o <<"\n">>

TableLayoutWitness ==
    /\ MdTableDone
    /\ result = "Ok"
    /\ Len(input[1].rows) = 2
    /\ \E k \in 1..2, i \in 1..Len(input[1].headers) :
          /\ i <= Len(input[1].rows[k])
          /\ MeasureInlineMd(input[1].rows[k][i]) > 3
          /\ MeasureInlineMd(input[1].rows[k][i]) > MeasureInlineMd(input[1].headers[i])
          /\ Len(MdToString(input[1].headers[i])) < MeasureInlineMd(input[1].rows[k][i])

\* The separator row as it stands in the output: the line after the header row
SeparatorLine ==
    LET t == input[1]
        header == Flatten(MdHeaderRowPieces(t.headers, MdTableWidths(t.headers, t.rows)))
    IN  Lines(SubSeq(writer.buf, Len(header) + 1, Len(writer.buf)))[1]

\* The cells of a row: what stands between two consecutive '|'
CellsOf(line) ==
    LET bars == {i \in 1..Len(line) : line[i] = "|"}
        bar(k) == CHOOSE q \in bars : Cardinality({x \in bars : x < q}) = k - 1
    IN  [k \in 1..Max(Cardinality(bars) - 1, 0) |-> SubSeq(line, bar(k) + 1, bar(k + 1) - 1)]

CountOf(c, cell) == Cardinality({i \in 1..Len(cell) : cell[i] = c})

\* C4 as stated: every cell of the Markdown separator row has at least 3 dashes,
\* the alignment colons not counted.
SeparatorThreeDashes ==
    MdTableDone =>
        \A k \in 1..Len(CellsOf(SeparatorLine)) :
            CountOf("-", CellsOf(SeparatorLine)[k]) >= 3

\* C4, amended: every cell written in the Markdown separator row has at least 3
\* characters, the alignment colons counted: at least 2 dashes for Left and
\* Right, at least 1 dash for Center.
SeparatorThreeChars ==
    MdTableDone =>
        \A k \in 1..Len(CellsOf(SeparatorLine)) :
            LET cell == CellsOf(SeparatorLine)[k]
            IN  /\ Len(cell) - CountOf(" ", cell) >= 3
                /\ CountOf("-", cell) >=
                        (IF input[1].alignments[k] = "Center" THEN 1 ELSE 2)

SeparatorThreeCharsWitness ==
    /\ MdTableDone
    /\ Len(CellsOf(SeparatorLine)) = 3
    /\ CountOf("-", CellsOf(SeparatorLine)[2]) = 1
    /\ CountOf("-", CellsOf(SeparatorLine)[1]) > 3

\* The alignment spec as stated
StatedAlignSpec(w, align) ==
    CASE align = "Left" -> <<":">> \o [i \in 1..(w - 1) |-> "-"]
      [] align = "Center" -> <<":">> \o [i \in 1..(IF w - 2 > 1 THEN w - 2 ELSE 1) |-> "-"]
                             \o <<":">>
      [] align = "Right" -> [i \in 1..(w - 1) |-> "-"] \o <<":">>

\* C6: each cell of the Markdown separator row is ' ' + spec + ' |', the spec of
\* a column of width W being ':' and W-1 dashes for Left, ':' and max(W-2, 1)
\* dashes and ':' for Center, W-1 dashes and ':' for Right: W characters.
AlignmentSpecForms ==
    MdTableDone =>
        LET t == input[1]
            n == Min(Len(t.headers), Len(t.alignments))
            W(i) == ColumnWidth(MdColumnMeasures(t, i))
        IN  /\ SeparatorLine =
                 <<"|">> \o Flatten([i \in 1..n |->
                    <<" ">> \o StatedAlignSpec(W(i), t.alignments[i]) \o <<" ", "|">>])
            /\ \A i \in 1..n : Len(StatedAlignSpec(W(i), t.alignments[i])) = W(i)

AlignmentSpecFormsWitness ==
    /\ MdTableDone
    /\ Len(input[1].headers) = 3
    /\ input[1].alignments = <<"Right", "Center", "Left">>
    /\ \E i \in 1..3 : ColumnWidth(MdColumnMeasures(input[1], i)) > 3

\* Table t with its alignments padded with Left up to headers.len()
WithLeftDefaults(t) ==
    [t EXCEPT !.alignments =
        [i \in 1..Max(Len(t.headers), Len(t.alignments)) |->
            IF i <= Len(t.alignments) THEN t.alignments[i] ELSE "Left"]]

\* C7: with alignments shorter than headers, the Markdown separator row still
\* has one cell per header column, and the output is that of the same table
\* with the alignments padded with Left.
ShortAlignmentsDefaultLeft ==
    (MdTableDone /\ Len(input[1].alignments) < Len(input[1].headers)) =>
        /\ Len(CellsOf(SeparatorLine)) = Len(input[1].headers)
        /\ writer.buf = MdBlockText(style, WithLeftDefaults(input[1]))

\* Table t with every row cut or padded with empty cells to headers.len() cells
WithFullRows(t) ==
    [t EXCEPT !.rows =
        [k \in 1..Len(t.rows) |->
            [i \in 1..Len(t.headers) |->
                IF i <= Len(t.rows[k]) THEN t.rows[k][i] ELSE Text(<<>>)]]]

\* One block rendered by the constructed renderer's kind into a String
BlockAlone(b) ==
    IF target = "md" THEN RenderBlockMd(NewString, style, b)
    ELSE RenderBlockTerm(NewTermRenderer(0, TRUE), style, b)

\* C8: in both renderers a body row is written with exactly headers.len()
\* cells: the output is that of the table whose rows are cut to headers.len()
\* cells and padded with empty cells, so the cells beyond headers.len() are
\* neither written nor measured.
RowsHaveHeaderCells ==
    (pc = "done" /\ input[1].tag = "Table") =>
        /\ result = BlockAlone(WithFullRows(input[1])).res
        /\ writer.buf = BlockAlone(WithFullRows(input[1])).buf

RowsHaveHeaderCellsWitness ==
    /\ pc = "done"
    /\ target = "term"
    /\ result = "Ok"
    /\ Len(input[1].headers) = 3
    /\ \E k \in 1..Len(input[1].rows) : Len(input[1].rows[k]) = 4
    /\ \E k \in 1..Len(input[1].rows) : Len(input[1].rows[k]) = 1

\* The permutations of 1..n
RowOrders(n) == {p \in [1..n -> 1..n] : \A i, j \in 1..n : i # j => p[i] # p[j]}

\* C9: in both renderers the column widths of a Table are those of the table
\* with its rows in any other order: the greatest measure in each column; the
\* header row (Markdown) and the top border (terminal) written are those of
\* the permuted table.
WidthsIgnoreRowOrder ==
    (pc = "done" /\ input[1].tag = "Table") =>
        LET t == input[1]
            g == TableGlyphs(style)
        IN  \A p \in RowOrders(Len(t.rows)) :
                LET rs == [k \in 1..Len(t.rows) |-> t.rows[p[k]]]
                IN  /\ MdTableWidths(t.headers, rs) = MdTableWidths(t.headers, t.rows)
                    /\ MdTableWidths(t.headers, rs) =
                         [i \in 1..Len(t.headers) |-> ColumnWidth(MdColumnMeasures(t, i))]
                    /\ target = "md" =>
                         IsPrefix(Flatten(MdHeaderRowPieces(t.headers,
                                                MdTableWidths(t.headers, rs))),
                                  writer.buf)
                    /\ ~TermTableMeasurePanics(t.headers, t.rows) =>
                         /\ TermTableWidths(t.headers, rs) =
                              TermTableWidths(t.headers, t.rows)
                         /\ TermTableWidths(t.headers, rs) =
                              [i \in 1..Len(t.headers) |->
                                    ColumnWidth(TermColumnMeasures(t, i))]
                         /\ target = "term" =>
                              IsPrefix(Flatten(TermBorderPieces(
                                            NewTermRenderer(0, TRUE), style,
                                            TermTableWidths(t.headers, rs),
                                            g.tl, g.t_down, g.tr)),
                                       writer.buf)

WidthsIgnoreRowOrderWitness ==
    /\ pc = "done"
    /\ input[1].tag = "Table"
    /\ result = "Ok"
    /\ Len(input[1].rows) = 2
    /\ Len(input[1].headers) >= 1
    /\ Len(input[1].rows[1]) >= 1
    /\ Len(input[1].rows[2]) >= 1
    /\ MeasureInlineMd(input[1].rows[1][1]) > MeasureInlineMd(input[1].rows[2][1])
    /\ MeasureInlineMd(input[1].rows[2][1]) >= MeasureInlineMd(input[1].headers[1])
    /\ MeasureInlineMd(input[1].rows[1][1]) > 3

\* The cells of table t that are measured and written: the headers, and the
\* cells of each row within the first headers.len() columns
MeasuredCells(t) ==
    {t.headers[i] : i \in 1..Len(t.headers)}
    \cup UNION {{t.rows[k][i] : i \in 1..Min(Len(t.rows[k]), Len(t.headers))} :
                    k \in 1..Len(t.rows)}

\* The lines of the table as written: header, separator, body rows (the blank
\* line that ends the table left out)
TableLines == LET ls == Lines(writer.buf) IN SubSeq(ls, 1, Len(ls) - 1)

StatedRowLength(t) ==
    1 + SumSeq([i \in 1..Len(t.headers) |-> ColumnWidth(MdColumnMeasures(t, i)) + 3])

QuoteKeepsTrailingSpaces ==
    (MdDone /\ input[1].tag = "Blockquote" /\ Len(input[1].inner) = 1) =>
        LET kept == Lines(WithoutTrailingNewlines(MdBlockText(style, input[1].inner[1])))
            quoted == Lines(writer.buf)
        IN  /\ Len(quoted) = Len(kept)
            /\ \A k \in 1..Len(kept) : quoted[k] = <<">", " ">> \o kept[k]

\* Position i of line starts ESC[0m
IsResetAt(line, i) == i + 3 <= Len(line) /\ SubSeq(line, i, i + 3) = <<ESC, "[", "0", "m">>

\* Every style code of the line other than ESC[0m has an ESC[0m after it in
\* the same line
LineIsClosed(line) ==
    \A i \in 1..Len(line) :
        (line[i] = ESC /\ ~IsResetAt(line, i)) =>
            \E j \in (i + 1)..Len(line) : IsResetAt(line, j)

\* C25: in terminal output with colours on every styled span is closed: each
\* style opener written is followed by a RESET before the newline that ends
\* its line, for every block and inline kind, the content lines of a CodeBlock
\* (which open code_color) included.
SpansAreClosed ==
    (TermDone /\ style.use_colors /\ result = "Ok") =>
        \A k \in 1..Len(Lines(writer.buf)) : LineIsClosed(Lines(writer.buf)[k])

----------------------------------------------------------------------------
(* Properties of align_text *)

\* The widths align_text is asked for: below, at and above every cell length
MaxAlignWidth == 8

\* The plain text of every header and body cell of t that to_plain_string
\* accepts
PlainCells(t) ==
    LET cells == {t.headers[i] : i \in 1..Len(t.headers)}
                 \cup UNION {{t.rows[k][i] : i \in 1..Len(t.rows[k])} :
                             k \in 1..Len(t.rows)}
    IN  {TermToPlainString(c) : c \in {d \in cells : ~TermPlainPanics(d)}}

\* s between l spaces and r spaces
Spaced(l, s, r) == Repeat(<<" ">>, l) \o s \o Repeat(<<" ">>, r)

\* The stated result of align_text(s, w, a)
StatedAlign(s, w, a) ==
    IF Len(s) >= w THEN s
    ELSE CASE a = "Left" -> Spaced(0, s, w - Len(s))
           [] a = "Right" -> Spaced(w - Len(s), s, 0)
           [] a = "Center" -> Spaced((w - Len(s)) \div 2, s,
                                     (w - Len(s)) - ((w - Len(s)) \div 2))

\* C26: align_text(s, w, a) is s when s has at least w characters; otherwise
\* it is s with w - len spaces on the right (Left), on the left (Right), or
\* floor((w - len) / 2) on the left and the rest on the right (Center); its
\* length is max(w, len). Checked for the plain text of every cell of the
\* rendered table, every width up to MaxAlignWidth and the three alignments.
AlignTextPads ==
    (TermDone /\ input[1].tag = "Table") =>
        \A s \in PlainCells(input[1]) : \A w \in 0..MaxAlignWidth :
            \A a \in {"Left", "Center", "Right"} :
                /\ AlignText(s, w, a) = StatedAlign(s, w, a)
                /\ Len(AlignText(s, w, a)) = Max(w, Len(s))

\* A rendered table whose header "Name" is centred in a column of width 5,
\* one space of padding, which goes to the right; "Alice" fills the column
AlignTextPadsWitness ==
    /\ TermDone /\ result = "Ok" /\ ~style.use_colors /\ ~style.use_unicode_boxes
    /\ input[1].tag = "Table"
    /\ <<"N", "a", "m", "e">> \in PlainCells(input[1])
    /\ AlignText(<<"N", "a", "m", "e">>, 5, "Center") = <<"N", "a", "m", "e", " ">>
    /\ AlignText(<<"N", "a", "m", "e">>, 3, "Center") = <<"N", "a", "m", "e">>
    /\ Len(Lines(writer.buf)) >= 4
    /\ Lines(writer.buf)[2] =
         <<"|", " ", "N", "a", "m", "e", " ", " ", "|", " ", "a", "b", " ", " ", "|">>
    /\ Lines(writer.buf)[4] =
         <<"|", " ", "A", "l", "i", "c", "e", " ", "|", " ", " ", " ", " ", " ", "|">>

----------------------------------------------------------------------------
(* Properties of terminal tables *)

\* The cells of column i of t: the header and the cell of every row that has one
ColumnCells(t, i) == {t.headers[i]} \cup {t.rows[k][i] : k \in RowsWithCell(t, i)}

\* W[i] as stated: the greatest of 3 and the plain-text lengths of the column
PlainColumnWidth(t, i) ==
    MaxOf({3} \cup {Len(TermToPlainString(c)) : c \in ColumnCells(t, i)})

\* No cell of t, inside or outside the header columns, holds an Image or a
\* LineBreak at any depth
CellsArePlain(t) ==
    /\ \A i \in 1..Len(t.headers) : ~TermPlainPanics(t.headers[i])
    /\ \A k \in 1..Len(t.rows) : \A i \in 1..Len(t.rows[k]) :
          ~TermPlainPanics(t.rows[k][i])

\* The stated length of every line of the table
StatedTermRowLength(t) ==
    1 + SumSeq([i \in 1..Len(t.headers) |-> PlainColumnWidth(t, i) + 3])

\* C27: a terminal Table with at least one header and no Image or LineBreak in
\* its cells, rendered with colours off, has column widths W[i] = max(3, the
\* plain-text lengths of the header and the cells of column i); every such
\* cell fits in W[i]; the top border, the header row, the separator, every
\* body row and the bottom border have 1 + sum(W[i] + 3) characters each.
TermTableIsRectangular ==
    (/\ TermDone /\ input[1].tag = "Table" /\ ~style.use_colors
     /\ Len(input[1].headers) >= 1 /\ CellsArePlain(input[1])) =>
        LET t == input[1]
        IN  /\ result = "Ok"
            /\ TermTableWidths(t.headers, t.rows) =
                 [i \in 1..Len(t.headers) |-> PlainColumnWidth(t, i)]
            /\ \A i \in 1..Len(t.headers) : \A c \in ColumnCells(t, i) :
                  Len(TermToPlainString(c)) <= PlainColumnWidth(t, i)
            /\ Len(Lines(writer.buf)) = Len(t.rows) + 5
            /\ \A k \in 1..(Len(t.rows) + 4) :
                  Len(Lines(writer.buf)[k]) = StatedTermRowLength(t)
            /\ Lines(writer.buf)[Len(t.rows) + 5] = <<>>
            /\ Lines(writer.buf)[1] =
                 <<"+">> \o Flatten([i \in 1..Len(t.headers) |->
                                Repeat(<<"-">>, PlainColumnWidth(t, i) + 2) \o <<"+">>])

\* A rendered table of three columns, widened to 5 and 4 by body cells and at
\* the floor of 3, with a row longer than the headers and a row shorter:
\* lines of 1 + 8 + 7 + 6 = 22 characters
TermTableIsRectangularWitness ==
    /\ TermDone /\ input[1].tag = "Table" /\ ~style.use_colors
    /\ result = "Ok"
    /\ CellsArePlain(input[1])
    /\ Len(input[1].headers) = 3
    /\ Len(input[1].rows) = 2
    /\ Len(input[1].rows[1]) = 4 /\ Len(input[1].rows[2]) = 1
    /\ TermTableWidths(input[1].headers, input[1].rows) = <<5, 4, 3>>
    /\ StatedTermRowLength(input[1]) = 22
    /\ Len(Lines(writer.buf)[4]) = 22

----------------------------------------------------------------------------
(* Properties of the indentation depth *)

\* The temporary buffer of a Blockquote child rendered by a renderer whose
\* indent_level is level
ChildBufferAt(child, level) ==
    RenderBlockTerm([NewTermRenderer(0, TRUE) EXCEPT !.indent_level = level],
                    style, child).buf

\* What a top-level Blockquote writes when its children's buffers are those of
\* a renderer at the given level
QuoteOfBuffersAt(level) ==
    Flatten([i \in 1..Len(input[1].inner) |->
        Flatten(TermQuoteLinePieces(NewTermRenderer(0, TRUE), style,
                                    ChildBufferAt(input[1].inner[i], level)))])
    \o <<"\n">>

\* The children of the rendered Blockquote that are Paragraphs
ParagraphChildren ==
    {i \in 1..Len(input[1].inner) : input[1].inner[i].tag = "Paragraph"}

\* C28 as stated: each child of a terminal Blockquote is rendered at
\* indent_level + 1, so that the lines of its temporary buffer begin with
\* 2 x (indent_level + 1) spaces, and indent_level is back at its value
\* afterwards.
QuoteChildIsIndented ==
    (TermDone /\ result = "Ok" /\ input[1].tag = "Blockquote") =>
        /\ indent_level = 0
        /\ writer.buf = QuoteOfBuffersAt(indent_level + 1)
        /\ \A i \in ParagraphChildren :
              IsPrefix(Repeat(<<" ">>, 2 * (indent_level + 1)),
                       ChildBufferAt(input[1].inner[i], indent_level + 1))

\* C28, amended: the blockquote's own indent_level is incremented while a
\* child is rendered and is back at its value afterwards, but the child is
\* rendered by a new renderer whose indent_level is 0: its temporary buffer
\* is the child's rendering at level 0, which for a Paragraph differs from
\* the rendering at level 1 by the two leading spaces its lines do not have.
QuoteChildAtLevelZero ==
    (TermDone /\ result = "Ok" /\ input[1].tag = "Blockquote") =>
        /\ indent_level = 0
        /\ writer.buf = QuoteOfBuffersAt(0)
        /\ \A i \in ParagraphChildren :
              LET at0 == Lines(ChildBufferAt(input[1].inner[i], 0))
                  at1 == Lines(ChildBufferAt(input[1].inner[i], 1))
              IN  /\ Len(at1) = Len(at0)
                  /\ at1 = [k \in 1..Len(at0) |-> <<" ", " ">> \o at0[k]]

\* A rendered Blockquote of a Heading and a Paragraph, the Paragraph's line
\* written right behind the bar and its space
QuoteChildAtLevelZeroWitness ==
    /\ TermDone /\ result = "Ok" /\ PlainAscii
    /\ input[1].tag = "Blockquote"
    /\ Len(input[1].inner) = 2
    /\ ParagraphChildren = {2}
    /\ indent_level = 0
    /\ Len(Lines(writer.buf)) >= 4
    /\ Lines(writer.buf)[4] = <<"|", " ", "a", " ">>
    /\ ChildBufferAt(input[1].inner[2], 1) = <<" ", " ", "a", " ", "\n">>

\* The blocks that a Blockquote at any depth of b renders as its children,
\* each by a renderer of its own
RECURSIVE QuotedBlocks(_)
QuotedBlocks(b) ==
    CASE b.tag = "Blockquote" ->
            UNION {{b.inner[i]} \cup QuotedBlocks(b.inner[i]) : i \in 1..Len(b.inner)}
      [] b.tag = "BlockList" ->
            UNION {QuotedBlocks(b.inner[i]) : i \in 1..Len(b.inner)}
      [] b.tag = "List" ->
            UNION {QuotedBlocks(b.items[i]) : i \in 1..Len(b.items)}
      [] b.tag = "TaskList" ->
            UNION {QuotedBlocks(b.items[i][2]) : i \in 1..Len(b.items)}
      [] OTHER -> {}

\* What write_indent writes at a level above 0: a run of two or more spaces
\* as one write (no text of the documents rendered is such a run)
IsIndentation(piece) ==
    Len(piece) >= 2 /\ \A i \in 1..Len(piece) : piece[i] = " "

\* No write in the log is an indentation
WritesNoIndentation(log) == \A k \in 1..Len(log) : ~IsIndentation(log[k])

\* A renderer after a call: it wrote no indentation, and its indent_level is
\* 0 when the call returned Ok
NeverIndented(r) ==
    /\ WritesNoIndentation(r.log)
    /\ r.res = "Ok" => r.indent_level = 0

\* C29: a terminal renderer created by new or with_style (the one the call is
\* made on, and the one made for each child of a Blockquote at any depth)
\* has indent_level 0 whenever write_indent runs, so that write_indent writes
\* the empty string, for every nesting of List, TaskList, Blockquote and
\* BlockList; indent_level is 0 when the call has returned Ok.
IndentIsAlwaysZero ==
    TermDone =>
        /\ WritesNoIndentation(writer.log)
        /\ result = "Ok" => indent_level = 0
        /\ \A c \in QuotedBlocks(input[1]) : \A oc \in BOOLEAN :
              NeverIndented(FreshRender(c, oc))

\* A rendered List whose first item is a Blockquote of a List and whose second
\* is a Paragraph with a LineBreak: write_indent ran for the items, for the
\* bar lines, inside the child renderer and after the LineBreak
IndentIsAlwaysZeroWitness ==
    /\ TermDone /\ result = "Ok" /\ PlainAscii
    /\ input[1].tag = "List"
    /\ Len(input[1].items) = 2
    /\ input[1].items[1].tag = "Blockquote"
    /\ QuotedBlocks(input[1]) = {List(TRUE, <<Paragraph(<<Text(<<"q">>)>>)>>)}
    /\ indent_level = 0
    /\ WritesNoIndentation(writer.log)
    /\ {k \in 1..Len(writer.log) : writer.log[k] = <<>>} # {}
    /\ Lines(writer.buf)[1] = <<"*", " ", "|", " ", "1", ".", " ", "q">>

----------------------------------------------------------------------------
(* Properties of nested styles *)

\* The number of places of s where code begins
Occurrences(code, s) ==
    Cardinality({i \in 1..Len(s) :
        /\ i + Len(code) - 1 <= Len(s)
        /\ SubSeq(s, i, i + Len(code) - 1) = code})

\* The number of Bold, Italic and Strikethrough nodes in a slice of inlines
RECURSIVE MarkCount(_)
MarkCount(xs) ==
    SumSeq([i \in 1..Len(xs) |->
        IF xs[i].tag \in {"Bold", "Italic", "Strikethrough"}
        THEN 1 + MarkCount(xs[i].content) ELSE 0])

\* xs is [Bold([Italic([Text(x)]), Text(y)])]
IsBoldOfItalicAndText(xs) ==
    /\ Len(xs) = 1 /\ xs[1].tag = "Bold"
    /\ Len(xs[1].content) = 2
    /\ xs[1].content[1].tag = "Italic"
    /\ Len(xs[1].content[1].content) = 1
    /\ xs[1].content[1].content[1].tag = "Text"
    /\ xs[1].content[2].tag = "Text"

\* C30: with colours on, a mark nested in another does not restore the outer
\* style: the inlines of a Paragraph made of Text, Bold, Italic and
\* Strikethrough are written with one RESET and one opener for each mark node
\* (the Paragraph adds one RESET of its own), so no opener is written again
\* after an inner RESET; Bold([Italic([Text(x)]), Text(y)]) is written as
\* BOLD + ITALIC + x + RESET + y + RESET.
NestedMarksDoNotRestore ==
    (/\ TermDone /\ style.use_colors
     /\ input[1].tag = "Paragraph" /\ IsMarkTree(input[1].content)) =>
        /\ result = "Ok"
        /\ Occurrences(RESET, writer.buf) = MarkCount(input[1].content) + 1
        /\ Occurrences(BOLD, writer.buf) + Occurrences(ITALIC, writer.buf)
              + Occurrences(STRIKETHROUGH, writer.buf) = MarkCount(input[1].content)
        /\ IsBoldOfItalicAndText(input[1].content) =>
              writer.buf = BOLD \o ITALIC \o input[1].content[1].content[1].content[1].text
                           \o RESET \o input[1].content[1].content[2].text \o RESET
                           \o RESET \o <<"\n">>

\* The rendered Paragraph([Bold([Italic([Text("x")]), Text("y")])]): y follows
\* the inner RESET with no opener before it
NestedMarksDoNotRestoreWitness ==
    /\ TermDone /\ style.use_colors /\ result = "Ok"
    /\ input[1] = Paragraph(<<Bold(<<Italic(<<Text(<<"x">>)>>), Text(<<"y">>)>>)>>)
    /\ writer.buf = <<ESC, "[", "1", "m", ESC, "[", "3", "m", "x", ESC, "[", "0", "m",
                      "y", ESC, "[", "0", "m", ESC, "[", "0", "m", "\n">>
====
